---- MODULE Spec2Model ----
(***************************************************************************)
(* Keyring pair (createPair), HDKD dispatcher (keyFromPath) and the        *)
(* signature verification engine of the util-crypto / keyring packages.    *)
(*                                                                         *)
(* Byte arrays are modelled by their length and an abstract content: who   *)
(* made them (kind, alg) and from which key material (key).  A key is the  *)
(* root entropy it was expanded from and the junctions derived since, so   *)
(* that seed expansion and derivation steps are deterministic and          *)
(* collision free, as the primitives are assumed to be.  Uint8Array        *)
(* objects live in a heap: a pair's closure variables hold references.     *)
(***************************************************************************)
EXTENDS Integers, Sequences, FiniteSets, TLC

\* ------------------------------------------------------------------ bounds
MaxPairs == 2
MaxPathLen == 2
MaxCode == 1
MaxMsg == 1
MaxMetaKeys == 1
MaxMetaVal == 1
MaxWideKeys == 2
MaxWideVal == 2
MaxMetaCalls == 3

\* --------------------------------------------------------------- registry
Types == {"ecdsa", "ed25519", "ethereum", "mldsa", "sr25519"}

Slots == 1 .. MaxPairs
BufIds == 1 .. (2 * MaxPairs + 4)
Undef == 0

Junctions == [code : 1 .. MaxCode, hard : BOOLEAN]
NoKey == [root |-> 0, path |-> <<>>]

Bytes(len, kind, alg, key) == [len |-> len, kind |-> kind, alg |-> alg, key |-> key]
EmptyBytes == Bytes(0, "empty", "none", NoKey)
FreeBuf == Bytes(0, "free", "none", NoKey)

\* sizes of the key material per type
PkLen(type) == CASE type = "mldsa" -> 2592
                 [] type \in {"ecdsa", "ethereum"} -> 33
                 [] OTHER -> 32
SkLen(type) == CASE type = "mldsa" -> 4896
                 [] type \in {"ecdsa", "ethereum"} -> 32
                 [] OTHER -> 64
SeedLen == 32

KeyAlg(type) == IF type \in {"ecdsa", "ethereum"} THEN "secp256k1" ELSE type

PublicOf(type, key) == Bytes(PkLen(type), "pk", KeyAlg(type), key)
SecretOf(type, key) == Bytes(SkLen(type), "sk", KeyAlg(type), key)
SeedOf(key) == Bytes(SeedLen, "seed", "none", key)

\* TYPE_FROM_SEED[type](seed): expands 32 bytes into a keypair, fails otherwise
TYPE_FROM_SEED(type, seed) ==
  IF seed.len # SeedLen
  THEN [ok |-> FALSE, publicKey |-> EmptyBytes, secretKey |-> EmptyBytes]
  ELSE [ok |-> TRUE, publicKey |-> PublicOf(type, seed.key),
        secretKey |-> SecretOf(type, seed.key)]

\* the discriminator table with the first two entries the other way round
TYPE_PREFIX_Swapped(type) ==
  CASE type = "ed25519" -> <<1>>
    [] type = "sr25519" -> <<0>>
    [] type \in {"ecdsa", "ethereum"} -> <<2>>
    [] type = "mldsa" -> <<3>>

\* TYPE_PREFIX[type]: the one-byte discriminator
TYPE_PREFIX(type) == CASE type = "ed25519" -> <<0>>
                       [] type = "sr25519" -> <<1>>
                       [] type \in {"ecdsa", "ethereum"} -> <<2>>
                       [] type = "mldsa" -> <<3>>
SIG_TYPE_NONE == <<>>

SigAlg(type) == CASE type = "ecdsa" -> "secp256k1-blake2"
                  [] type = "ethereum" -> "secp256k1-keccak"
                  [] OTHER -> type

MLDSA_SIGNATURE_LENGTH == 4627
SigLen(type) == CASE type = "mldsa" -> MLDSA_SIGNATURE_LENGTH
                  [] type \in {"ecdsa", "ethereum"} -> 65
                  [] OTHER -> 64

\* A byte string that is or holds a signature: the bytes put before it (head), the
\* signature proper (core: who signed what with which algorithm; "garbage" when
\* nobody did), its own first byte and length, and how many of its leading bytes
\* were cut off.  The first byte of a signature depends on what was signed.
SigFirstByte(message) == IF message.body = 1 THEN 2 ELSE 77
SigBytes(head, alg, key, message, first, len) ==
  [head |-> head, core |-> [alg |-> alg, key |-> key, msg |-> message],
   first |-> first, len |-> len, cut |-> 0]

\* TYPE_SIGNATURE[type](message, {publicKey, secretKey}): the bare signature
TYPE_SIGNATURE(type, message, publicKey, secretKey) ==
  SigBytes(<<>>, SigAlg(type), secretKey.key, message, SigFirstByte(message), SigLen(type))

NoMsg == [body |-> 0, form |-> "plain"]
NoSig == SigBytes(<<>>, "garbage", NoKey, NoMsg, 255, 0)

u8aLength(sig) == Len(sig.head) + sig.len - sig.cut
\* signature[0]; 255 stands for a byte inside a signature
u8aFirst(sig) == IF sig.head # <<>> THEN Head(sig.head)
                 ELSE IF sig.cut = 0 THEN sig.first ELSE 255
\* signature.subarray(1)
u8aSubarray1(sig) == IF sig.head # <<>> THEN [sig EXCEPT !.head = Tail(@)]
                     ELSE [sig EXCEPT !.cut = IF @ < sig.len THEN @ + 1 ELSE @]
\* u8aConcat(prefix, signature)
u8aConcat(prefix, sig) == [sig EXCEPT !.head = prefix \o @]

\* the transform with the ethereum entry cutting the hash down to 20 bytes itself
TYPE_ADDRESS_Truncating(type, p) ==
  CASE type = "ecdsa" -> IF p.len > 32 THEN [len |-> 32, hash |-> "blake2", of |-> p]
                                        ELSE [len |-> p.len, hash |-> "id", of |-> p]
    [] type = "ethereum" -> IF p.len = 20 THEN [len |-> 20, hash |-> "id", of |-> p]
                                          ELSE [len |-> 20, hash |-> "keccak", of |-> p]
    [] type = "mldsa" -> [len |-> 32, hash |-> "blake2", of |-> p]
    [] OTHER -> [len |-> p.len, hash |-> "id", of |-> p]

\* TYPE_ADDRESS[type](publicKey): the address-raw transform
TYPE_ADDRESS(type, p) ==
  CASE type = "ecdsa" -> IF p.len > 32 THEN [len |-> 32, hash |-> "blake2", of |-> p]
                                        ELSE [len |-> p.len, hash |-> "id", of |-> p]
    [] type = "ethereum" -> IF p.len = 20 THEN [len |-> 20, hash |-> "id", of |-> p]
                                          ELSE [len |-> 32, hash |-> "keccak", of |-> p]
    [] type = "mldsa" -> [len |-> 32, hash |-> "blake2", of |-> p]
    [] OTHER -> [len |-> p.len, hash |-> "id", of |-> p]

u8aEmpty(value) == value.len = 0

\* vrfHash(proof, context, extra) = blake2(context || extra || proof)
vrfHash(proof, context, extra) == [hash |-> "blake2", data |-> context \o extra, proof |-> proof]

\* ------------------------------------------------------- persistence codec
Pass == {"", "p"}
Latest == "latest"
Legacy == "legacy"
NoEncTypes == "undefined"

NoContainer == [present |-> FALSE, wellFormed |-> FALSE, gen |-> Latest, pass |-> "",
                publicKey |-> EmptyBytes, secretKey |-> EmptyBytes]
Container(pk, sk, pass, gen, wf) ==
  [present |-> TRUE, wellFormed |-> wf, gen |-> gen, pass |-> pass,
   publicKey |-> pk, secretKey |-> sk]

DecodeFailed == [ok |-> FALSE, publicKey |-> EmptyBytes, secretKey |-> EmptyBytes]

\* decodePair(passphrase, encoded, encTypes): the container's key material, or an
\* error for a missing or malformed container, an encoding generation that is not
\* accepted, or a passphrase that is not the container's
decodePair(passphrase, encoded, encTypes) ==
  IF \/ ~encoded.present
     \/ ~encoded.wellFormed
     \/ (encoded.gen = Legacy /\ encTypes # Legacy)
     \/ encoded.pass # passphrase
  THEN DecodeFailed
  ELSE [ok |-> TRUE, publicKey |-> encoded.publicKey, secretKey |-> encoded.secretKey]

\* encodePair({publicKey, secretKey}, passphrase, type): latest generation container
encodePair(publicKey, hasSecret, secretKey, passphrase, type) ==
  IF ~hasSecret
  THEN [ok |-> FALSE, container |-> NoContainer]
  ELSE [ok |-> TRUE, container |-> Container(publicKey, secretKey, passphrase, Latest, TRUE)]

\* pairToJson(type, {address, meta}, encoded, isEncrypted)
pairToJson(type, address, meta, encoded, isEncrypted) ==
  [address |-> address, meta |-> meta, encoded |-> encoded,
   isEncrypted |-> isEncrypted, type |-> type]

\* ------------------------------------------------------------------- state
VARIABLES pairs, heap, last
vars == <<pairs, heap, last>>

MetaKeys == 1 .. MaxMetaKeys
MetaVals == 1 .. MaxMetaVal
Metas == UNION {[ks -> MetaVals] : ks \in SUBSET MetaKeys}
NoMeta == [k \in {} |-> 1]

NoPair == [live |-> FALSE, type |-> "none", publicKey |-> Undef, secretKey |-> Undef,
           meta |-> NoMeta, encoded |-> NoContainer, encTypes |-> NoEncTypes]

\* createPair({toSS58, type}, {publicKey, secretKey}, meta = {}, encoded = null, encTypes)
createPair(type, publicKey, secretKey, meta, encoded, encTypes) ==
  [live |-> TRUE, type |-> type, publicKey |-> publicKey, secretKey |-> secretKey,
   meta |-> meta, encoded |-> encoded, encTypes |-> encTypes]

Refs(ps) == {ps[s].publicKey : s \in Slots} \cup {ps[s].secretKey : s \in Slots}

\* the next Uint8Array the runtime hands out: one nothing refers to
NewBuf(used) == CHOOSE r \in BufIds \ used : \A q \in BufIds \ used : r <= q

\* Buffers nothing refers to any more are gone, and the others are numbered in the
\* order the pairs refer to them: which number a buffer has is not observable,
\* only which references share one.
RefSeq(ps) == [i \in 1 .. 2 * MaxPairs |->
                 IF i % 2 = 1 THEN ps[(i + 1) \div 2].publicKey ELSE ps[i \div 2].secretKey]
Collect(ps, h) ==
  LET rs == RefSeq(ps)
      \* the places that are the first to refer to their buffer
      firsts == {i \in DOMAIN rs : rs[i] # Undef /\ \A j \in 1 .. i - 1 : rs[j] # rs[i]}
      number == [i \in firsts |-> Cardinality({j \in firsts : j <= i})]
      rename == [i \in DOMAIN rs |->
                   IF rs[i] = Undef THEN Undef
                   ELSE number[CHOOSE j \in firsts : rs[j] = rs[i]]]
  IN [pairs |-> [s \in Slots |-> [ps[s] EXCEPT !.publicKey = rename[2 * s - 1],
                                               !.secretKey = rename[2 * s]]],
      heap |-> [b \in BufIds |->
                  IF \E i \in firsts : number[i] = b
                  THEN h[rs[CHOOSE i \in firsts : number[i] = b]]
                  ELSE FreeBuf]]

Deref(h, r) == IF r = Undef THEN EmptyBytes ELSE h[r]

\* isLocked(secretKey) = !secretKey || u8aEmpty(secretKey)
isLocked(h, secretKey) == secretKey = Undef \/ u8aEmpty(h[secretKey])

NoRet == [kind |-> "void"]
Result(ps, h, outcome, ret, steps) ==
  [pairs |-> ps, heap |-> h, outcome |-> outcome, ret |-> ret, steps |-> steps]
Ok(ps, h, ret) == Result(ps, h, "ok", ret, 0)
Throw(ps, h, error) == Result(ps, h, error, NoRet, 0)

ErrLockedSign == "Cannot sign with a locked key pair"
ErrLockedDerive == "Cannot derive on a locked keypair"
ErrDerive == "Unable to derive on this keypair"
ErrSizes == "Invalid MLDSA key sizes"
ErrCodec == "decodePair failed"
ErrSeed == "seed expansion failed"
ErrEncode == "encodePair failed"
ErrPath == "keyExtractPath failed"
ErrHdkd == "derivation step failed"

\* ---------------------------------------------------------------- handlers
\* lock that also lets go of the cached container
lock_DropsContainer(ps, h, s) ==
  LET r == NewBuf(Refs(ps))
  IN Ok([ps EXCEPT ![s].secretKey = r, ![s].encoded = NoContainer],
        [h EXCEPT ![r] = EmptyBytes], NoRet)

\* lock that clears the public key with the secret key
lock_ClearsPublic(ps, h, s) ==
  LET r == NewBuf(Refs(ps))
  IN Ok([ps EXCEPT ![s].secretKey = r, ![s].publicKey = r],
        [h EXCEPT ![r] = EmptyBytes], NoRet)

\* lock that empties the buffer it has instead of taking a new one
lock_InPlace(ps, h, s) ==
  LET r == NewBuf(Refs(ps))
  IN IF ps[s].secretKey = Undef
     THEN Ok([ps EXCEPT ![s].secretKey = r], [h EXCEPT ![r] = EmptyBytes], NoRet)
     ELSE Ok(ps, [h EXCEPT ![ps[s].secretKey] = EmptyBytes], NoRet)

\* lock: secretKey = new Uint8Array()
lock(ps, h, s) ==
  LET r == NewBuf(Refs(ps))
  IN Ok([ps EXCEPT ![s].secretKey = r], [h EXCEPT ![r] = EmptyBytes], NoRet)

\* objectSpread({}, a, b): the keys of both, b's value where both have one
objectSpread(a, b) ==
  [k \in (DOMAIN a) \cup (DOMAIN b) |-> IF k \in DOMAIN b THEN b[k] ELSE a[k]]

\* setMeta that spreads the other way round: meta = objectSpread({}, additional, meta)
setMeta_EarlierWins(ps, h, s, additional) ==
  Ok([ps EXCEPT ![s].meta = objectSpread(additional, ps[s].meta)], h, NoRet)

\* setMeta: meta = objectSpread({}, meta, additional)
setMeta(ps, h, s, additional) ==
  Ok([ps EXCEPT ![s].meta = objectSpread(ps[s].meta, additional)], h, NoRet)

\* sign that only tests !secretKey, not u8aEmpty(secretKey)
sign_NullCheckOnly(ps, h, s, message, withType) ==
  IF ps[s].secretKey = Undef
  THEN Throw(ps, h, ErrLockedSign)
  ELSE Ok(ps, h, [kind |-> "signature",
                  sig |-> u8aConcat(IF withType THEN TYPE_PREFIX(ps[s].type) ELSE SIG_TYPE_NONE,
                                    TYPE_SIGNATURE(ps[s].type, message,
                                                   h[ps[s].publicKey], h[ps[s].secretKey]))])

\* sign(message, options)
sign(ps, h, s, message, withType) ==
  IF isLocked(h, ps[s].secretKey)
  THEN Throw(ps, h, ErrLockedSign)
  ELSE Ok(ps, h, [kind |-> "signature",
                  sig |-> u8aConcat(IF withType THEN TYPE_PREFIX(ps[s].type) ELSE SIG_TYPE_NONE,
                                    TYPE_SIGNATURE(ps[s].type, message,
                                                   h[ps[s].publicKey], h[ps[s].secretKey]))])

\* sr25519VrfSign(message, {secretKey}, context, extra): the native construction
sr25519VrfSign(message, secretKey, context, extra) ==
  [native |-> TRUE,
   out |-> [hash |-> "sr25519-vrf", context |-> context, extra |-> extra,
            proof |-> SigBytes(<<>>, "sr25519-vrf", secretKey.key, message, 255, 64)],
   proof |-> NoSig]

\* vrfSign(message, context, extra)
vrfSign(ps, h, s, message, context, extra) ==
  IF isLocked(h, ps[s].secretKey)
  THEN Throw(ps, h, ErrLockedSign)
  ELSE IF ps[s].type = "sr25519"
  THEN Ok(ps, h, [kind |-> "vrf",
                  vrf |-> sr25519VrfSign(message, h[ps[s].secretKey], context, extra)])
  ELSE LET proof == TYPE_SIGNATURE(ps[s].type, message,
                                   h[ps[s].publicKey], h[ps[s].secretKey])
       IN Ok(ps, h, [kind |-> "vrf",
                     vrf |-> [native |-> FALSE, out |-> vrfHash(proof, context, extra),
                              proof |-> proof]])

\* the two closure assignments publicKey = ..; secretKey = ..
Assign(ps, h, s, pk, sk) ==
  LET r1 == NewBuf(Refs(ps))
      r2 == NewBuf(Refs(ps) \cup {r1})
  IN Ok([ps EXCEPT ![s].publicKey = r1, ![s].secretKey = r2],
        [h EXCEPT ![r1] = pk, ![r2] = sk], NoRet)

\* decodePkcs8 that takes the decoded public key before it looks at the secret
decodePkcs8_PublicFirst(ps, h, s, passphrase, userEncoded) ==
  LET p == ps[s]
      decoded == decodePair(passphrase,
                            IF userEncoded.present THEN userEncoded ELSE p.encoded,
                            p.encTypes)
      pair == TYPE_FROM_SEED(p.type, decoded.secretKey)
      r1 == NewBuf(Refs(ps))
      early == [ps EXCEPT ![s].publicKey = r1]
      earlyHeap == [h EXCEPT ![r1] = decoded.publicKey]
  IN IF ~decoded.ok THEN Throw(ps, h, ErrCodec)
     ELSE IF p.type = "mldsa"
     THEN IF decoded.secretKey.len = 4896 /\ decoded.publicKey.len = 2592
          THEN Assign(ps, h, s, decoded.publicKey, decoded.secretKey)
          ELSE IF decoded.secretKey.len = 32
          THEN IF pair.ok THEN Assign(ps, h, s, pair.publicKey, pair.secretKey)
                          ELSE Throw(early, earlyHeap, ErrSeed)
          ELSE Throw(early, earlyHeap, ErrSizes)
     ELSE IF decoded.secretKey.len = 64
          THEN Assign(ps, h, s, decoded.publicKey, decoded.secretKey)
          ELSE IF pair.ok THEN Assign(ps, h, s, pair.publicKey, pair.secretKey)
                          ELSE Throw(early, earlyHeap, ErrSeed)

\* decodePkcs8 with the two-case rule for every type, mldsa included
decodePkcs8_TwoCaseRule(ps, h, s, passphrase, userEncoded) ==
  LET p == ps[s]
      decoded == decodePair(passphrase,
                            IF userEncoded.present THEN userEncoded ELSE p.encoded,
                            p.encTypes)
      pair == TYPE_FROM_SEED(p.type, decoded.secretKey)
  IN IF ~decoded.ok THEN Throw(ps, h, ErrCodec)
     ELSE IF decoded.secretKey.len = 64
          THEN Assign(ps, h, s, decoded.publicKey, decoded.secretKey)
          ELSE IF pair.ok THEN Assign(ps, h, s, pair.publicKey, pair.secretKey)
                          ELSE Throw(ps, h, ErrSeed)

\* decodePkcs8 that takes the decoded secret and keeps the public key it had
decodePkcs8_SecretOnly(ps, h, s, passphrase, userEncoded) ==
  LET p == ps[s]
      decoded == decodePair(passphrase,
                            IF userEncoded.present THEN userEncoded ELSE p.encoded,
                            p.encTypes)
      pair == TYPE_FROM_SEED(p.type, decoded.secretKey)
      own == h[p.publicKey]
  IN IF ~decoded.ok THEN Throw(ps, h, ErrCodec)
     ELSE IF p.type = "mldsa"
     THEN IF decoded.secretKey.len = 4896 /\ decoded.publicKey.len = 2592
          THEN Assign(ps, h, s, own, decoded.secretKey)
          ELSE IF decoded.secretKey.len = 32
          THEN IF pair.ok THEN Assign(ps, h, s, own, pair.secretKey)
                          ELSE Throw(ps, h, ErrSeed)
          ELSE Throw(ps, h, ErrSizes)
     ELSE IF decoded.secretKey.len = 64
          THEN Assign(ps, h, s, own, decoded.secretKey)
          ELSE IF pair.ok THEN Assign(ps, h, s, own, pair.secretKey)
                          ELSE Throw(ps, h, ErrSeed)

\* decodePkcs8(passphrase, userEncoded)
decodePkcs8(ps, h, s, passphrase, userEncoded) ==
  LET p == ps[s]
      decoded == decodePair(passphrase,
                            IF userEncoded.present THEN userEncoded ELSE p.encoded,
                            p.encTypes)
      pair == TYPE_FROM_SEED(p.type, decoded.secretKey)
  IN IF ~decoded.ok THEN Throw(ps, h, ErrCodec)
     ELSE IF p.type = "mldsa"
     THEN IF decoded.secretKey.len = 4896 /\ decoded.publicKey.len = 2592
          THEN Assign(ps, h, s, decoded.publicKey, decoded.secretKey)
          ELSE IF decoded.secretKey.len = 32
          THEN IF pair.ok THEN Assign(ps, h, s, pair.publicKey, pair.secretKey)
                          ELSE Throw(ps, h, ErrSeed)
          ELSE Throw(ps, h, ErrSizes)
     ELSE IF decoded.secretKey.len = 64
          THEN Assign(ps, h, s, decoded.publicKey, decoded.secretKey)
          ELSE IF pair.ok THEN Assign(ps, h, s, pair.publicKey, pair.secretKey)
                          ELSE Throw(ps, h, ErrSeed)

\* unlock(passphrase) = decodePkcs8(passphrase)
unlock(ps, h, s, passphrase) == decodePkcs8(ps, h, s, passphrase, NoContainer)

\* recode that returns the container and does not keep it
recode_NoCache(ps, h, s, passphrase) ==
  LET d == IF isLocked(h, ps[s].secretKey) /\ ps[s].encoded.present
           THEN decodePkcs8(ps, h, s, passphrase, ps[s].encoded)
           ELSE Ok(ps, h, NoRet)
      p == d.pairs[s]
      e == encodePair(d.heap[p.publicKey], p.secretKey # Undef,
                      Deref(d.heap, p.secretKey), passphrase, p.type)
  IN IF d.outcome # "ok" THEN d
     ELSE IF ~e.ok THEN Throw(d.pairs, d.heap, ErrEncode)
     ELSE Ok(d.pairs, d.heap, [kind |-> "container", container |-> e.container])

\* recode(passphrase): decode first when locked with a cached container, then
\* re-encode and cache
recode(ps, h, s, passphrase) ==
  LET d == IF isLocked(h, ps[s].secretKey) /\ ps[s].encoded.present
           THEN decodePkcs8(ps, h, s, passphrase, ps[s].encoded)
           ELSE Ok(ps, h, NoRet)
      p == d.pairs[s]
      e == encodePair(d.heap[p.publicKey], p.secretKey # Undef,
                      Deref(d.heap, p.secretKey), passphrase, p.type)
  IN IF d.outcome # "ok" THEN d
     ELSE IF ~e.ok THEN Throw(d.pairs, d.heap, ErrEncode)
     ELSE Ok([d.pairs EXCEPT ![s].encoded = e.container, ![s].encTypes = NoEncTypes],
             d.heap, [kind |-> "container", container |-> e.container])

encodePkcs8(ps, h, s, passphrase) == recode(ps, h, s, passphrase)

\* ------------------------------------------------------------------- HDKD
\* keyExtractPath(suri): each "/code" is a soft and each "//code" a hard junction;
\* text that is not introduced by a slash does not re-match and is an error
Segments == [slashes : 0 .. 2, code : 1 .. MaxCode]
keyExtractPath(suri) ==
  [ok |-> \A i \in DOMAIN suri : suri[i].slashes # 0,
   path |-> [i \in DOMAIN suri |-> [code |-> suri[i].code, hard |-> suri[i].slashes = 2]]]

\* generators[type]
generators(type) == CASE type = "ecdsa" -> "keyHdkdEcdsa"
                      [] type = "ed25519" -> "keyHdkdEd25519"
                      [] type = "ethereum" -> "keyHdkdEcdsa"
                      [] type = "mldsa" -> "keyHdkdMldsa"
                      [] type = "sr25519" -> "keyHdkdSr25519"
                      [] OTHER -> "undefined"

HdkdType(keyHdkd) == CASE keyHdkd = "keyHdkdEcdsa" -> "ecdsa"
                       [] keyHdkd = "keyHdkdEd25519" -> "ed25519"
                       [] keyHdkd = "keyHdkdMldsa" -> "mldsa"
                       [] OTHER -> "sr25519"
SoftDerivers == {"keyHdkdSr25519"}

\* one derivation step: a new keypair from the current secret and the junction;
\* a soft junction only where the algorithm exposes soft derivation
keyHdkdStep(keyHdkd, secretKey, junction) ==
  IF (~junction.hard /\ keyHdkd \notin SoftDerivers) \/ secretKey.len = 0
  THEN [ok |-> FALSE, publicKey |-> EmptyBytes, secretKey |-> EmptyBytes]
  ELSE LET key == [root |-> secretKey.key.root, path |-> Append(secretKey.key.path, junction)]
       IN [ok |-> TRUE, publicKey |-> PublicOf(HdkdType(keyHdkd), key),
           secretKey |-> SecretOf(HdkdType(keyHdkd), key)]

\* the loop of keyFromPath: result = keyHdkd(result, junction) for each junction
RECURSIVE keyFromPathLoop(_, _, _, _)
keyFromPathLoop(keep, keyHdkd, result, path) ==
  IF path = <<>> \/ ~result.ok THEN result
  ELSE LET out == keyHdkdStep(keyHdkd, Deref(result.heap, result.secretKey), Head(path))
           r1 == NewBuf(keep \cup {result.publicKey, result.secretKey})
           r2 == NewBuf(keep \cup {result.publicKey, result.secretKey, r1})
           next == IF out.ok
                   THEN [ok |-> TRUE, publicKey |-> r1, secretKey |-> r2,
                         heap |-> [result.heap EXCEPT ![r1] = out.publicKey,
                                                      ![r2] = out.secretKey],
                         steps |-> result.steps + 1]
                   ELSE [result EXCEPT !.ok = FALSE, !.steps = @ + 1]
       IN keyFromPathLoop(keep, keyHdkd, next, Tail(path))

\* keyFromPath whose loop runs its body before it tests for the end of the path
keyFromPath_DoWhile(keep, h, publicKey, secretKey, path, type) ==
  LET keyHdkd == generators(type)
      pair == [ok |-> TRUE, publicKey |-> publicKey, secretKey |-> secretKey,
               heap |-> h, steps |-> 0]
  IN IF keyHdkd = "undefined"
     THEN [pair EXCEPT !.ok = FALSE]
     ELSE keyFromPathLoop(keep, keyHdkd, pair,
                          IF path = <<>> THEN <<[code |-> 1, hard |-> TRUE]>> ELSE path)

\* keyFromPath that takes the junctions from the last to the first
keyFromPath_RightToLeft(keep, h, publicKey, secretKey, path, type) ==
  LET keyHdkd == generators(type)
      pair == [ok |-> TRUE, publicKey |-> publicKey, secretKey |-> secretKey,
               heap |-> h, steps |-> 0]
      reversed == [i \in DOMAIN path |-> path[Len(path) + 1 - i]]
  IN IF keyHdkd = "undefined"
     THEN [pair EXCEPT !.ok = FALSE]
     ELSE keyFromPathLoop(keep, keyHdkd, pair, reversed)

\* keyFromPath(pair, path, type)
keyFromPath(keep, h, publicKey, secretKey, path, type) ==
  LET keyHdkd == generators(type)
      pair == [ok |-> TRUE, publicKey |-> publicKey, secretKey |-> secretKey,
               heap |-> h, steps |-> 0]
  IN IF keyHdkd = "undefined"
     THEN [pair EXCEPT !.ok = FALSE]
     ELSE keyFromPathLoop(keep, keyHdkd, pair, path)

\* derive that hands the parent's secret over to the pair it returns
derive_LocksParent(ps, h, s, suri, meta) ==
  LET p == ps[s]
      extracted == keyExtractPath(suri)
      derived == keyFromPath(Refs(ps), h, p.publicKey, p.secretKey, extracted.path, p.type)
  IN IF p.type = "ethereum" THEN Throw(ps, h, ErrDerive)
     ELSE IF isLocked(h, p.secretKey) THEN Throw(ps, h, ErrLockedDerive)
     ELSE IF ~extracted.ok THEN Throw(ps, h, ErrPath)
     ELSE IF ~derived.ok THEN Result(ps, h, ErrHdkd, NoRet, derived.steps)
     ELSE Result([ps EXCEPT ![s].secretKey = Undef], derived.heap, "ok",
                 [kind |-> "pair",
                  pair |-> createPair(p.type, derived.publicKey, derived.secretKey, meta,
                                      NoContainer, NoEncTypes)],
                 derived.steps)

\* derive without the test for ethereum
derive_NoEthereumCheck(ps, h, s, suri, meta) ==
  LET p == ps[s]
      extracted == keyExtractPath(suri)
      derived == keyFromPath(Refs(ps), h, p.publicKey, p.secretKey, extracted.path, p.type)
  IN IF isLocked(h, p.secretKey) THEN Throw(ps, h, ErrLockedDerive)
     ELSE IF ~extracted.ok THEN Throw(ps, h, ErrPath)
     ELSE IF ~derived.ok THEN Result(ps, h, ErrHdkd, NoRet, derived.steps)
     ELSE Result(ps, derived.heap, "ok",
                 [kind |-> "pair",
                  pair |-> createPair(p.type, derived.publicKey, derived.secretKey, meta,
                                      NoContainer, NoEncTypes)],
                 derived.steps)

\* derive that starts from the secret of the cached container when there is one
derive_FromCached(ps, h, s, suri, meta) ==
  LET p == ps[s]
      extracted == keyExtractPath(suri)
      basis == IF p.encoded.present /\ p.secretKey # Undef
               THEN [h EXCEPT ![p.secretKey] = SecretOf(p.type, p.encoded.secretKey.key)]
               ELSE h
      derived == keyFromPath(Refs(ps), basis, p.publicKey, p.secretKey, extracted.path, p.type)
  IN IF p.type = "ethereum" THEN Throw(ps, h, ErrDerive)
     ELSE IF isLocked(h, p.secretKey) THEN Throw(ps, h, ErrLockedDerive)
     ELSE IF ~extracted.ok THEN Throw(ps, h, ErrPath)
     ELSE IF ~derived.ok THEN Result(ps, h, ErrHdkd, NoRet, derived.steps)
     ELSE Result(ps, [derived.heap EXCEPT ![p.secretKey] = h[p.secretKey]], "ok",
                 [kind |-> "pair",
                  pair |-> createPair(p.type, derived.publicKey, derived.secretKey, meta,
                                      NoContainer, NoEncTypes)],
                 derived.steps)

\* derive(suri, meta): the pair it returns is in ret, its buffers are in the heap
derive(ps, h, s, suri, meta) ==
  LET p == ps[s]
      extracted == keyExtractPath(suri)
      derived == keyFromPath(Refs(ps), h, p.publicKey, p.secretKey, extracted.path, p.type)
  IN IF p.type = "ethereum" THEN Throw(ps, h, ErrDerive)
     ELSE IF isLocked(h, p.secretKey) THEN Throw(ps, h, ErrLockedDerive)
     ELSE IF ~extracted.ok THEN Throw(ps, h, ErrPath)
     ELSE IF ~derived.ok THEN Result(ps, h, ErrHdkd, NoRet, derived.steps)
     ELSE Result(ps, derived.heap, "ok",
                 [kind |-> "pair",
                  pair |-> createPair(p.type, derived.publicKey, derived.secretKey, meta,
                                      NoContainer, NoEncTypes)],
                 derived.steps)

\* ----------------------------------------------------------------- getters
\* encodeAddress(): toSS58(raw), or ethereumEncode(raw) for ethereum
encodeAddress(ps, h, s) ==
  LET raw == TYPE_ADDRESS(ps[s].type, h[ps[s].publicKey])
  IN [codec |-> IF ps[s].type = "ethereum" THEN "ethereum" ELSE "ss58", raw |-> raw]

\* addressRaw: raw, or raw.slice(-20) for ethereum
addressRaw(ps, h, s) ==
  LET raw == TYPE_ADDRESS(ps[s].type, h[ps[s].publicKey])
  IN IF ps[s].type = "ethereum"
     THEN [raw EXCEPT !.len = IF raw.len < 20 THEN raw.len ELSE 20]
     ELSE raw

\* toJson(passphrase): the address is computed before recode runs
toJson(ps, h, s, passphrase) ==
  LET p == ps[s]
      pk == h[p.publicKey]
      address == IF p.type \in {"ecdsa", "ethereum"}
                 THEN [codec |-> "hex",
                       raw |-> [len |-> IF pk.len = 20 THEN 20 ELSE 33, hash |-> "id", of |-> pk]]
                 ELSE encodeAddress(ps, h, s)
      r == recode(ps, h, s, passphrase)
  IN IF r.outcome # "ok" THEN r
     ELSE Ok(r.pairs, r.heap,
             [kind |-> "json",
              json |-> pairToJson(p.type, address, p.meta, r.ret.container, passphrase # "")])

\* ------------------------------------------------------ message wrapping
Forms == {"plain", "eth", "bytes", "bytes2"}
Messages == [body : 1 .. MaxMsg, form : Forms]
\* u8aIsWrapped(message, withEthereum)
u8aIsWrapped(m, withEthereum) ==
  m.form \in {"bytes", "bytes2"} \/ (withEthereum /\ m.form = "eth")
u8aUnwrapBytes(m) ==
  IF u8aIsWrapped(m, FALSE)
  THEN [m EXCEPT !.form = IF @ = "bytes2" THEN "bytes" ELSE "plain"]
  ELSE m
u8aWrapBytes(m) == IF u8aIsWrapped(m, TRUE) THEN m ELSE [m EXCEPT !.form = "bytes"]

\* ---------------------------------------------- signature verification
\* decodeAddress(addressOrPublicKey): bytes pass through, text is decoded or rejected
AsBytes(raw) == [codec |-> "bytes", valid |-> TRUE, raw |-> raw]
decodeAddress(a) == [ok |-> a.valid, publicKey |-> a.raw]

AcceptedHashes(crypto) == CASE crypto = "ecdsa" -> {"id", "blake2"}
                            [] crypto = "ethereum" -> {"id", "keccak"}
                            [] OTHER -> {"id"}

\* the primitive of `crypto` rejects outright what has not its sizes
PrimitiveThrows(crypto, signature, publicKey) ==
  \/ u8aLength(signature) # SigLen(crypto)
  \/ (crypto \in {"ed25519", "sr25519"} /\ publicKey.len # 32)
  \/ (crypto = "mldsa" /\ publicKey.len # 2592)

\* A byte string that more than one primitive accepts: one of 64 bytes that is a
\* signature under ed25519 and under sr25519 for a 32-byte key of either, one of
\* 65 bytes that is a signature under both secp256k1 hashings
TwofoldClassic == "ed25519+sr25519"
TwofoldSecp == "secp256k1-blake2+keccak"
SigAlgs(crypto) ==
  {SigAlg(crypto)}
  \cup (IF crypto \in {"ed25519", "sr25519"} THEN {TwofoldClassic} ELSE {})
  \cup (IF crypto \in {"ecdsa", "ethereum"} THEN {TwofoldSecp} ELSE {})
KeyAlgs(crypto, sigAlg) ==
  IF sigAlg = TwofoldClassic THEN {"ed25519", "sr25519"} ELSE {KeyAlg(crypto)}

\* ed25519Verify, sr25519Verify, mldsaVerify, secp256k1Verify(hashType): true only
\* for a signature the algorithm accepts over this message with this key
Verifies(crypto, message, signature, publicKey) ==
  /\ ~PrimitiveThrows(crypto, signature, publicKey)
  /\ signature.head = <<>> /\ signature.cut = 0
  /\ signature.core.alg \in SigAlgs(crypto)
  /\ signature.core.msg = message
  /\ publicKey.of.kind = "pk"
  /\ publicKey.of.alg \in KeyAlgs(crypto, signature.core.alg)
  /\ publicKey.of.key = signature.core.key
  /\ publicKey.hash \in AcceptedHashes(crypto)

VERIFIERS_ECDSA == <<"ecdsa", "ethereum">>
VERIFIERS == <<"ed25519", "mldsa", "sr25519">>

\* the last of the verifiers that accept instead of the first
FirstValid_Last(verifiers, i, message, signature, publicKey) ==
  LET accepting == {k \in i .. Len(verifiers) :
                      Verifies(verifiers[k], message, signature, publicKey)}
  IN IF accepting = {} THEN 0
     ELSE CHOOSE k \in accepting : \A o \in accepting : o <= k

\* verifiers.some(...): the index of the first verifier that accepts, 0 for none
RECURSIVE FirstValid(_, _, _, _, _)
FirstValid(verifiers, i, message, signature, publicKey) ==
  IF i > Len(verifiers) THEN 0
  ELSE IF Verifies(verifiers[i], message, signature, publicKey) THEN i
  ELSE FirstValid(verifiers, i + 1, message, signature, publicKey)

\* verifyDetect without the try: what a verifier throws reaches the caller
verifyDetect_NoCatch(result, message, publicKey, signature, verifiers) ==
  LET i == FirstValid(verifiers, 1, message, signature, publicKey)
      throwing == {k \in 1 .. Len(verifiers) :
                     PrimitiveThrows(verifiers[k], signature, publicKey)}
  IN IF \E k \in throwing : i = 0 \/ k < i
     THEN [result EXCEPT !.threw = "verifier threw"]
     ELSE IF i = 0
     THEN [result EXCEPT !.isValid = FALSE, !.tried = @ \o verifiers,
                         !.handed = @ \o [k \in 1 .. Len(verifiers) |-> signature]]
     ELSE [result EXCEPT !.isValid = TRUE, !.crypto = verifiers[i],
                         !.tried = @ \o SubSeq(verifiers, 1, i),
                         !.handed = @ \o [k \in 1 .. i |-> signature]]

\* verifyDetect whose catch takes a verifier that throws for one that accepts
verifyDetect_CatchTrue(result, message, publicKey, signature, verifiers) ==
  LET accepting == {k \in 1 .. Len(verifiers) :
                      \/ Verifies(verifiers[k], message, signature, publicKey)
                      \/ PrimitiveThrows(verifiers[k], signature, publicKey)}
      i == IF accepting = {} THEN 0
           ELSE CHOOSE k \in accepting : \A o \in accepting : k <= o
  IN IF i = 0
     THEN [result EXCEPT !.isValid = FALSE, !.tried = @ \o verifiers,
                         !.handed = @ \o [k \in 1 .. Len(verifiers) |-> signature]]
     ELSE [result EXCEPT !.isValid = TRUE, !.crypto = verifiers[i],
                         !.tried = @ \o SubSeq(verifiers, 1, i),
                         !.handed = @ \o [k \in 1 .. i |-> signature]]

\* verifyDetect(result, {message, publicKey, signature}, verifiers)
verifyDetect(result, message, publicKey, signature, verifiers) ==
  LET i == FirstValid(verifiers, 1, message, signature, publicKey)
  IN IF i = 0
     THEN [result EXCEPT !.isValid = FALSE, !.tried = @ \o verifiers,
                         !.handed = @ \o [k \in 1 .. Len(verifiers) |-> signature]]
     ELSE [result EXCEPT !.isValid = TRUE, !.crypto = verifiers[i],
                         !.tried = @ \o SubSeq(verifiers, 1, i),
                         !.handed = @ \o [k \in 1 .. i |-> signature]]

IsMultisigShape(signature) ==
  \/ (u8aFirst(signature) \in {0, 1, 2} /\ u8aLength(signature) \in {65, 66})
  \/ (u8aFirst(signature) = 3 /\ u8aLength(signature) = MLDSA_SIGNATURE_LENGTH + 1)

ErrUnknownCrypto == "Unknown crypto type"
ErrSigLength == "Invalid signature length"
ErrAddress == "decodeAddress failed"

\* verifyMultisig whose 65-byte branch does not go on to the secp256k1 variants
verifyMultisig_NoEcdsaFallback(result, message, publicKey, signature) ==
  IF (u8aFirst(signature) \notin {0, 1, 2} \/ u8aLength(signature) \notin {65, 66})
     /\ ~(u8aFirst(signature) = 3 /\ u8aLength(signature) = MLDSA_SIGNATURE_LENGTH + 1)
  THEN [result EXCEPT !.threw = ErrUnknownCrypto]
  ELSE IF u8aFirst(signature) = 3 /\ u8aLength(signature) = MLDSA_SIGNATURE_LENGTH + 1
  THEN verifyDetect(result, message, publicKey, u8aSubarray1(signature), <<"mldsa">>)
  ELSE IF u8aLength(signature) = 66
  THEN verifyDetect(result, message, publicKey, u8aSubarray1(signature), VERIFIERS_ECDSA)
  ELSE LET r1 == verifyDetect(result, message, publicKey, u8aSubarray1(signature), VERIFIERS)
       IN IF r1.isValid THEN r1 ELSE [r1 EXCEPT !.crypto = "none"]

\* verifyMultisig(result, {message, publicKey, signature})
verifyMultisig(result, message, publicKey, signature) ==
  IF (u8aFirst(signature) \notin {0, 1, 2} \/ u8aLength(signature) \notin {65, 66})
     /\ ~(u8aFirst(signature) = 3 /\ u8aLength(signature) = MLDSA_SIGNATURE_LENGTH + 1)
  THEN [result EXCEPT !.threw = ErrUnknownCrypto]
  ELSE IF u8aFirst(signature) = 3 /\ u8aLength(signature) = MLDSA_SIGNATURE_LENGTH + 1
  THEN verifyDetect(result, message, publicKey, u8aSubarray1(signature), <<"mldsa">>)
  ELSE IF u8aLength(signature) = 66
  THEN verifyDetect(result, message, publicKey, u8aSubarray1(signature), VERIFIERS_ECDSA)
  ELSE LET r1 == verifyDetect(result, message, publicKey, u8aSubarray1(signature), VERIFIERS)
           r2 == IF r1.isValid THEN r1
                 ELSE verifyDetect(r1, message, publicKey, signature, VERIFIERS_ECDSA)
       IN IF r2.isValid THEN r2 ELSE [r2 EXCEPT !.crypto = "none"]

\* getVerifyFn that looks at the length only
getVerifyFn_ByLength(signature) ==
  IF u8aLength(signature) \in {65, 66, MLDSA_SIGNATURE_LENGTH + 1}
  THEN "verifyMultisig" ELSE "verifyDetect"

\* getVerifyFn without the clause for byte 3 and L + 1 bytes
getVerifyFn_NoLattice(signature) ==
  IF u8aFirst(signature) \in {0, 1, 2} /\ u8aLength(signature) \in {65, 66}
  THEN "verifyMultisig" ELSE "verifyDetect"

\* getVerifyFn(signature)
getVerifyFn(signature) == IF IsMultisigShape(signature) THEN "verifyMultisig" ELSE "verifyDetect"

\* verifyFn whose bare path strips the first byte for the 64-byte families
verifyFn_BareStripped(fn, result, message, publicKey, signature) ==
  LET noted == [result EXCEPT !.calls = @ \o <<[fn |-> fn, message |-> message,
                                                publicKey |-> publicKey,
                                                signature |-> signature]>>]
      r1 == verifyDetect(noted, message, publicKey, u8aSubarray1(signature), VERIFIERS)
  IN IF fn = "verifyMultisig"
     THEN verifyMultisig(noted, message, publicKey, signature)
     ELSE IF r1.isValid THEN r1
     ELSE verifyDetect(r1, message, publicKey, signature, VERIFIERS_ECDSA)

\* verifyFn(result, input); calls keeps what each call was handed
verifyFn(fn, result, message, publicKey, signature) ==
  LET noted == [result EXCEPT !.calls = @ \o <<[fn |-> fn, message |-> message,
                                                publicKey |-> publicKey,
                                                signature |-> signature]>>]
  IN IF fn = "verifyMultisig"
     THEN verifyMultisig(noted, message, publicKey, signature)
     ELSE verifyDetect(noted, message, publicKey, signature, VERIFIERS \o VERIFIERS_ECDSA)

NoAddress == [len |-> 0, hash |-> "id", of |-> EmptyBytes]
VerifyThrew(error) ==
  [threw |-> error, crypto |-> "none", isValid |-> FALSE, isWrapped |-> FALSE,
   publicKey |-> NoAddress, tried |-> <<>>, handed |-> <<>>, passes |-> 0,
   calls |-> <<>>]

\* signatureVerify that decodes the address before it looks at the length
signatureVerify_AddressFirst(message, signature, addressOrPublicKey) ==
  LET decoded == decodeAddress(addressOrPublicKey)
      publicKey == decoded.publicKey
      result == [threw |-> "", crypto |-> "none", isValid |-> FALSE,
                 isWrapped |-> u8aIsWrapped(message, TRUE), publicKey |-> publicKey,
                 tried |-> <<>>, handed |-> <<>>, passes |-> 1, calls |-> <<>>]
      isWrappedBytes == u8aIsWrapped(message, FALSE)
      fn == getVerifyFn(signature)
      first == verifyFn(fn, result, message, publicKey, signature)
      toggled == IF isWrappedBytes THEN u8aUnwrapBytes(message) ELSE u8aWrapBytes(message)
  IN IF ~decoded.ok THEN VerifyThrew(ErrAddress)
     ELSE IF u8aLength(signature) \notin {64, 65, 66, MLDSA_SIGNATURE_LENGTH,
                                          MLDSA_SIGNATURE_LENGTH + 1}
     THEN VerifyThrew(ErrSigLength)
     ELSE IF first.threw # "" THEN first
     ELSE IF first.crypto # "none" \/ (first.isWrapped /\ ~isWrappedBytes) THEN first
     ELSE verifyFn(fn, [first EXCEPT !.passes = 2], toggled, publicKey, signature)

\* signatureVerify that goes on to the second pass for an ethereum envelope too
signatureVerify_RetryEth(message, signature, addressOrPublicKey) ==
  LET decoded == decodeAddress(addressOrPublicKey)
      publicKey == decoded.publicKey
      result == [threw |-> "", crypto |-> "none", isValid |-> FALSE,
                 isWrapped |-> u8aIsWrapped(message, TRUE), publicKey |-> publicKey,
                 tried |-> <<>>, handed |-> <<>>, passes |-> 1, calls |-> <<>>]
      isWrappedBytes == u8aIsWrapped(message, FALSE)
      fn == getVerifyFn(signature)
      first == verifyFn(fn, result, message, publicKey, signature)
      toggled == IF isWrappedBytes THEN u8aUnwrapBytes(message) ELSE u8aWrapBytes(message)
  IN IF u8aLength(signature) \notin {64, 65, 66, MLDSA_SIGNATURE_LENGTH,
                                     MLDSA_SIGNATURE_LENGTH + 1}
     THEN VerifyThrew(ErrSigLength)
     ELSE IF ~decoded.ok THEN VerifyThrew(ErrAddress)
     ELSE IF first.threw # "" THEN first
     ELSE IF first.crypto # "none" THEN first
     ELSE verifyFn(fn, [first EXCEPT !.passes = 2], toggled, publicKey, signature)

\* signatureVerify that returns what the first pass gave
signatureVerify_NoRetry(message, signature, addressOrPublicKey) ==
  LET decoded == decodeAddress(addressOrPublicKey)
      publicKey == decoded.publicKey
      result == [threw |-> "", crypto |-> "none", isValid |-> FALSE,
                 isWrapped |-> u8aIsWrapped(message, TRUE), publicKey |-> publicKey,
                 tried |-> <<>>, handed |-> <<>>, passes |-> 1, calls |-> <<>>]
      isWrappedBytes == u8aIsWrapped(message, FALSE)
      fn == getVerifyFn(signature)
      first == verifyFn(fn, result, message, publicKey, signature)
      toggled == IF isWrappedBytes THEN u8aUnwrapBytes(message) ELSE u8aWrapBytes(message)
  IN IF u8aLength(signature) \notin {64, 65, 66, MLDSA_SIGNATURE_LENGTH,
                                     MLDSA_SIGNATURE_LENGTH + 1}
     THEN VerifyThrew(ErrSigLength)
     ELSE IF ~decoded.ok THEN VerifyThrew(ErrAddress)
     ELSE IF first.threw # "" THEN first
     ELSE first

\* signatureVerify that goes on to the second pass whatever the first one found
signatureVerify_AlwaysRetry(message, signature, addressOrPublicKey) ==
  LET decoded == decodeAddress(addressOrPublicKey)
      publicKey == decoded.publicKey
      result == [threw |-> "", crypto |-> "none", isValid |-> FALSE,
                 isWrapped |-> u8aIsWrapped(message, TRUE), publicKey |-> publicKey,
                 tried |-> <<>>, handed |-> <<>>, passes |-> 1, calls |-> <<>>]
      isWrappedBytes == u8aIsWrapped(message, FALSE)
      fn == getVerifyFn(signature)
      first == verifyFn(fn, result, message, publicKey, signature)
      toggled == IF isWrappedBytes THEN u8aUnwrapBytes(message) ELSE u8aWrapBytes(message)
  IN IF u8aLength(signature) \notin {64, 65, 66, MLDSA_SIGNATURE_LENGTH,
                                     MLDSA_SIGNATURE_LENGTH + 1}
     THEN VerifyThrew(ErrSigLength)
     ELSE IF ~decoded.ok THEN VerifyThrew(ErrAddress)
     ELSE IF first.threw # "" THEN first
     ELSE IF first.isWrapped /\ ~isWrappedBytes THEN first
     ELSE verifyFn(fn, [first EXCEPT !.passes = 2], toggled, publicKey, signature)

\* signatureVerify whose second pass takes isWrapped from the message it toggled
signatureVerify_WrappedOfToggled(message, signature, addressOrPublicKey) ==
  LET decoded == decodeAddress(addressOrPublicKey)
      publicKey == decoded.publicKey
      result == [threw |-> "", crypto |-> "none", isValid |-> FALSE,
                 isWrapped |-> u8aIsWrapped(message, TRUE), publicKey |-> publicKey,
                 tried |-> <<>>, handed |-> <<>>, passes |-> 1, calls |-> <<>>]
      isWrappedBytes == u8aIsWrapped(message, FALSE)
      fn == getVerifyFn(signature)
      first == verifyFn(fn, result, message, publicKey, signature)
      toggled == IF isWrappedBytes THEN u8aUnwrapBytes(message) ELSE u8aWrapBytes(message)
  IN IF u8aLength(signature) \notin {64, 65, 66, MLDSA_SIGNATURE_LENGTH,
                                     MLDSA_SIGNATURE_LENGTH + 1}
     THEN VerifyThrew(ErrSigLength)
     ELSE IF ~decoded.ok THEN VerifyThrew(ErrAddress)
     ELSE IF first.threw # "" THEN first
     ELSE IF first.crypto # "none" \/ (first.isWrapped /\ ~isWrappedBytes) THEN first
     ELSE verifyFn(fn, [first EXCEPT !.passes = 2,
                                     !.isWrapped = u8aIsWrapped(toggled, TRUE)],
                   toggled, publicKey, signature)

\* signatureVerify(message, signature, addressOrPublicKey)
signatureVerify(message, signature, addressOrPublicKey) ==
  LET decoded == decodeAddress(addressOrPublicKey)
      publicKey == decoded.publicKey
      result == [threw |-> "", crypto |-> "none", isValid |-> FALSE,
                 isWrapped |-> u8aIsWrapped(message, TRUE), publicKey |-> publicKey,
                 tried |-> <<>>, handed |-> <<>>, passes |-> 1, calls |-> <<>>]
      isWrappedBytes == u8aIsWrapped(message, FALSE)
      fn == getVerifyFn(signature)
      first == verifyFn(fn, result, message, publicKey, signature)
      toggled == IF isWrappedBytes THEN u8aUnwrapBytes(message) ELSE u8aWrapBytes(message)
  IN IF u8aLength(signature) \notin {64, 65, 66, MLDSA_SIGNATURE_LENGTH,
                                     MLDSA_SIGNATURE_LENGTH + 1}
     THEN VerifyThrew(ErrSigLength)
     ELSE IF ~decoded.ok THEN VerifyThrew(ErrAddress)
     ELSE IF first.threw # "" THEN first
     ELSE IF first.crypto # "none" \/ (first.isWrapped /\ ~isWrappedBytes) THEN first
     ELSE verifyFn(fn, [first EXCEPT !.passes = 2], toggled, publicKey, signature)

Bool(b) == [kind |-> "boolean", value |-> b]

\* verify without the branch for mldsa
verify_NoMldsaBranch(ps, h, s, message, signature, signerPublic) ==
  LET type == ps[s].type
      result == signatureVerify(message, signature,
                                AsBytes(TYPE_ADDRESS(type, signerPublic)))
  IN IF result.threw # "" THEN Throw(ps, h, result.threw)
     ELSE Ok(ps, h, Bool(result.isValid))

\* verify whose mldsa branch has no try: what mldsaVerify throws reaches the caller
verify_MldsaNoCatch(ps, h, s, message, signature, signerPublic) ==
  LET type == ps[s].type
      result == signatureVerify(message, signature,
                                AsBytes(TYPE_ADDRESS(type, signerPublic)))
      raw == [len |-> signerPublic.len, hash |-> "id", of |-> signerPublic]
  IN IF type = "mldsa"
     THEN IF PrimitiveThrows("mldsa", signature, raw) THEN Throw(ps, h, "verifier threw")
          ELSE Ok(ps, h, Bool(Verifies("mldsa", message, signature, raw)))
     ELSE IF result.threw # "" THEN Throw(ps, h, result.threw)
     ELSE Ok(ps, h, Bool(result.isValid))

\* verify(message, signature, signerPublic)
verify(ps, h, s, message, signature, signerPublic) ==
  LET type == ps[s].type
      result == signatureVerify(message, signature,
                                AsBytes(TYPE_ADDRESS(type, signerPublic)))
  IN IF type = "mldsa"
     THEN Ok(ps, h, Bool(Verifies("mldsa", message, signature,
                                  [len |-> signerPublic.len, hash |-> "id",
                                   of |-> signerPublic])))
     ELSE IF result.threw # "" THEN Throw(ps, h, result.threw)
     ELSE Ok(ps, h, Bool(result.isValid))

\* sr25519VrfVerify(message, vrfResult, publicKey, context, extra)
sr25519VrfVerify(message, vrfResult, publicKey, context, extra) ==
  /\ vrfResult.native
  /\ vrfResult.out.context = context /\ vrfResult.out.extra = extra
  /\ vrfResult.out.proof.core.msg = message
  /\ vrfResult.out.proof.core.key = publicKey.key
  /\ publicKey.kind = "pk" /\ publicKey.alg = "sr25519"

\* vrfResult.subarray(32): what follows the 32 bytes of output
VrfProof(vrfResult) ==
  IF vrfResult.native THEN SigBytes(<<>>, "garbage", NoKey, NoMsg, 255, 64)
  ELSE vrfResult.proof

\* vrfVerify that does not compare the first 32 bytes with the recomputed hash
vrfVerify_NoHashCheck(ps, h, s, message, vrfResult, signerPublic, context, extra) ==
  LET type == ps[s].type
      result == signatureVerify(message, u8aConcat(TYPE_PREFIX(type), VrfProof(vrfResult)),
                                AsBytes(TYPE_ADDRESS(type, signerPublic)))
  IN IF type = "sr25519"
     THEN Ok(ps, h, Bool(sr25519VrfVerify(message, vrfResult, h[ps[s].publicKey],
                                          context, extra)))
     ELSE IF result.threw # "" THEN Throw(ps, h, result.threw)
     ELSE Ok(ps, h, Bool(result.isValid))

\* vrfVerify whose sr25519 branch checks against the signer public key handed in
vrfVerify_AgainstSignerPublic(ps, h, s, message, vrfResult, signerPublic, context, extra) ==
  LET type == ps[s].type
      result == signatureVerify(message, u8aConcat(TYPE_PREFIX(type), VrfProof(vrfResult)),
                                AsBytes(TYPE_ADDRESS(type, signerPublic)))
  IN IF type = "sr25519"
     THEN Ok(ps, h, Bool(sr25519VrfVerify(message, vrfResult, signerPublic,
                                          context, extra)))
     ELSE IF result.threw # "" THEN Throw(ps, h, result.threw)
     ELSE Ok(ps, h, Bool(result.isValid
                         /\ vrfResult.out = vrfHash(VrfProof(vrfResult), context, extra)))

\* vrfVerify(message, vrfResult, signerPublic, context, extra)
vrfVerify(ps, h, s, message, vrfResult, signerPublic, context, extra) ==
  LET type == ps[s].type
      result == signatureVerify(message, u8aConcat(TYPE_PREFIX(type), VrfProof(vrfResult)),
                                AsBytes(TYPE_ADDRESS(type, signerPublic)))
  IN IF type = "sr25519"
     THEN Ok(ps, h, Bool(sr25519VrfVerify(message, vrfResult, h[ps[s].publicKey],
                                          context, extra)))
     ELSE IF result.threw # "" THEN Throw(ps, h, result.threw)
     ELSE Ok(ps, h, Bool(result.isValid
                         /\ vrfResult.out = vrfHash(VrfProof(vrfResult), context, extra)))

\* ------------------------------------------------------------ the callers
RootKey == [root |-> 1, path |-> <<>>]
OtherKey == [root |-> 2, path |-> <<>>]

\* the containers a pair is constructed with: none, one of its own key, a legacy
\* one holding its seed, one that is damaged
InitContainers(type) ==
  {NoContainer,
   Container(PublicOf(type, RootKey), SecretOf(type, RootKey), "p", Latest, TRUE),
   Container(PublicOf(type, RootKey), SeedOf(RootKey), "", Legacy, TRUE),
   Container(PublicOf(type, RootKey), SecretOf(type, RootKey), "p", Latest, FALSE)}

\* the containers a caller hands to decodePkcs8: none, one of another key, one of
\* the pair's own key, one whose secret has no known size
UserContainers(type) ==
  {NoContainer,
   Container(PublicOf(type, OtherKey), SecretOf(type, OtherKey), "p", Latest, TRUE),
   Container(PublicOf(type, RootKey), SeedOf(RootKey), "", Latest, TRUE),
   Container(PublicOf(type, OtherKey), Bytes(7, "sk", KeyAlg(type), OtherKey), "", Latest, TRUE)}

Suris == UNION {[1 .. n -> Segments] : n \in 0 .. MaxPathLen}
\* context and extra are byte strings; absent ones count as empty
NoText == <<>>
Contexts == {NoText, <<1>>}
SignMessages == {m \in Messages : m.form = "plain"}

Live(s) == pairs[s].live

Init ==
  \E type \in Types, hasSecret \in BOOLEAN, meta \in Metas, encTypes \in {NoEncTypes, Legacy} :
    \E encoded \in InitContainers(type) :
      /\ pairs = [s \in Slots |->
                    IF s = 1
                    THEN createPair(type, 1, IF hasSecret THEN 2 ELSE Undef,
                                    meta, encoded, encTypes)
                    ELSE NoPair]
      /\ heap = [b \in BufIds |->
                   IF b = 1 THEN PublicOf(type, RootKey)
                   ELSE IF b = 2 /\ hasSecret THEN SecretOf(type, RootKey)
                   ELSE FreeBuf]
      /\ last = [op |-> "createPair", slot |-> 1, outcome |-> "ok", ret |-> NoRet,
                 steps |-> 0, wasLocked |-> ~hasSecret]

\* a call returns or throws: the closure variables and the heap are what the
\* handler left, and what nothing refers to is collected; last records the call,
\* what it gave, the derivation steps it ran and whether the pair was locked
\* when it was made
Call(op, s, r) ==
  /\ LET c == Collect(r.pairs, r.heap)
     IN pairs' = c.pairs /\ heap' = c.heap
  /\ last' = [op |-> op, slot |-> s, outcome |-> r.outcome, ret |-> r.ret,
               steps |-> r.steps, wasLocked |-> isLocked(heap, pairs[s].secretKey)]

Lock == \E s \in Slots : Live(s) /\ Call("lock", s, lock(pairs, heap, s))

SetMeta == \E s \in Slots, additional \in Metas :
  Live(s) /\ Call("setMeta", s, setMeta(pairs, heap, s, additional))

Sign == \E s \in Slots, message \in SignMessages, withType \in BOOLEAN :
  Live(s) /\ Call("sign", s, sign(pairs, heap, s, message, withType))

VrfSign == \E s \in Slots, message \in SignMessages, context \in Contexts :
  Live(s) /\ Call("vrfSign", s, vrfSign(pairs, heap, s, message, context, NoText))

DecodePkcs8 == \E s \in Slots, passphrase \in Pass :
  /\ Live(s)
  /\ \E userEncoded \in UserContainers(pairs[s].type) :
       Call("decodePkcs8", s, decodePkcs8(pairs, heap, s, passphrase, userEncoded))

Unlock == \E s \in Slots, passphrase \in Pass :
  Live(s) /\ Call("unlock", s, unlock(pairs, heap, s, passphrase))

EncodePkcs8 == \E s \in Slots, passphrase \in Pass :
  Live(s) /\ Call("encodePkcs8", s, encodePkcs8(pairs, heap, s, passphrase))

ToJson == \E s \in Slots, passphrase \in Pass :
  Live(s) /\ Call("toJson", s, toJson(pairs, heap, s, passphrase))

\* the slots no pair is kept in
FreeSlots(ps) == {q \in Slots : ~ps[q].live}

NewSlot(ps) == CHOOSE q \in FreeSlots(ps) : \A o \in FreeSlots(ps) : q <= o

\* derive, the caller keeping the pair it got: it takes the first free slot
Derive == \E s \in Slots, suri \in Suris, meta \in Metas :
  /\ Live(s)
  /\ FreeSlots(pairs) # {}
  /\ LET r == derive(pairs, heap, s, suri, meta)
         child == NewSlot(pairs)
     IN Call("derive", s,
             IF r.outcome # "ok" THEN r
             ELSE Result([r.pairs EXCEPT ![child] = r.ret.pair], r.heap, "ok",
                         [kind |-> "pair", slot |-> child], r.steps))

\* the signatures a caller may hold: what an unlocked pair signs, bare or with its
\* type, and a byte string that is no signature
KnownSignatures ==
  {r.ret.sig : r \in {sign(pairs, heap, s, m, w) :
                        s \in {q \in Slots : Live(q) /\ ~isLocked(heap, pairs[q].secretKey)},
                        m \in SignMessages, w \in BOOLEAN}}
  \cup {SigBytes(<<>>, "garbage", NoKey, NoMsg, 255, 67)}
KnownPublicKeys == {heap[pairs[s].publicKey] : s \in {q \in Slots : Live(q)}}

Verify == \E s \in Slots, message \in SignMessages :
  /\ Live(s)
  /\ \E signature \in KnownSignatures, signerPublic \in KnownPublicKeys :
       Call("verify", s, verify(pairs, heap, s, message, signature, signerPublic))

\* a pair of the type and the key, holding its secret
Holder(type, key) ==
  [pairs |-> [s \in Slots |->
                IF s = 1 THEN createPair(type, 1, 2, NoMeta, NoContainer, NoEncTypes)
                ELSE NoPair],
   heap |-> [b \in BufIds |->
               CASE b = 1 -> PublicOf(type, key)
                 [] b = 2 -> SecretOf(type, key)
                 [] OTHER -> FreeBuf]]

\* the VRF results a caller may hold: what a pair signs while it holds the secret
\* of its public key, whether or not it holds it now
KnownVrfResults ==
  {r.ret.vrf : r \in {vrfSign(Holder(pairs[s].type, heap[pairs[s].publicKey].key).pairs,
                              Holder(pairs[s].type, heap[pairs[s].publicKey].key).heap,
                              1, m, c, NoText) :
                        s \in {q \in Slots : Live(q)},
                        m \in SignMessages, c \in Contexts}}

VrfVerify == \E s \in Slots, message \in SignMessages, context \in Contexts :
  /\ Live(s)
  /\ \E vrfResult \in KnownVrfResults, signerPublic \in KnownPublicKeys :
       Call("vrfVerify", s,
            vrfVerify(pairs, heap, s, message, vrfResult, signerPublic, context, NoText))

Address == \E s \in Slots :
  Live(s) /\ Call("address", s, Ok(pairs, heap, [kind |-> "address",
                                                 address |-> encodeAddress(pairs, heap, s)]))

AddressRaw == \E s \in Slots :
  Live(s) /\ Call("addressRaw", s, Ok(pairs, heap, [kind |-> "bytes",
                                                    raw |-> addressRaw(pairs, heap, s)]))

\* the holder of a derived pair lets go of it
Release == \E s \in Slots \ {1} :
  /\ Live(s)
  /\ Call("release", s, Ok([pairs EXCEPT ![s] = NoPair], heap, NoRet))

\* what a caller sees of a pair it was handed
PairView(p, h) ==
  [type |-> p.type, publicKey |-> h[p.publicKey],
   isLocked |-> isLocked(h, p.secretKey), meta |-> p.meta]

\* derive, the caller looking at the pair it got and letting go of it at once
DeriveDrop == \E s \in Slots, suri \in Suris, meta \in Metas :
  /\ Live(s)
  /\ LET r == derive(pairs, heap, s, suri, meta)
     IN Call("derive", s,
             IF r.outcome # "ok" THEN r
             ELSE Result(r.pairs, r.heap, "ok",
                         [kind |-> "view", view |-> PairView(r.ret.pair, r.heap)],
                         r.steps))

\* one pair and every operation on it
Next ==
  \/ Lock \/ SetMeta \/ Sign \/ VrfSign \/ DecodePkcs8 \/ Unlock \/ EncodePkcs8
  \/ ToJson \/ DeriveDrop \/ Verify \/ VrfVerify \/ Address \/ AddressRaw

Spec == Init /\ [][Next]_vars

\* a pair constructed without a container, the pairs derived from it, and the
\* operations that change a pair
InitDerive ==
  /\ Init
  /\ pairs[1].encoded.present => pairs[1].encoded.wellFormed /\ pairs[1].encoded.gen = Latest
  /\ pairs[1].encTypes = NoEncTypes
  /\ pairs[1].meta = NoMeta
NextDerive ==
  \/ Lock \/ SetMeta \/ DecodePkcs8 \/ Unlock \/ Derive \/ Release

SpecDerive == InitDerive /\ [][NextDerive]_vars

\* ------------------------------------------- the verification engine alone
\* the messages handed to the engine: the empty one and the bodies, in every form
VerifyMessages == [body : 0 .. MaxMsg, form : Forms]

\* what a front-end signs: a message as it is, in the envelope, or in the
\* ethereum envelope
SignedMessages == {m \in VerifyMessages : m.form # "bytes2"}

\* what is verified against a signed message: its body in every form, and
\* another body
MessagesFor(signed) ==
  {m \in VerifyMessages : m.body = signed.body}
  \cup {[body |-> (signed.body + 1) % (MaxMsg + 1), form |-> "plain"]}

\* the bytes put before a bare signature: nothing, a discriminator, a byte that
\* is none, two bytes
Heads == {<<>>, <<0>>, <<1>>, <<2>>, <<3>>, <<7>>, <<2, 7>>}

\* the byte strings handed over as signature: a bare signature under each head,
\* and a bare signature that lost its first byte
SignaturesOf(bare) == {u8aConcat(head, bare) : head \in Heads} \cup {u8aSubarray1(bare)}

\* a bare signature of a classical type made into one that the other primitive
\* of its family accepts as well
Twofold(bare) ==
  [bare EXCEPT !.core.alg = CASE @ \in {"ed25519", "sr25519"} -> TwofoldClassic
                              [] @ \in {"secp256k1-blake2", "secp256k1-keccak"} -> TwofoldSecp
                              [] OTHER -> @]

\* a public key handed over as it is
RawKey(p) == [len |-> p.len, hash |-> "id", of |-> p]

\* the addressOrPublicKey of a pair: its public key, its raw address, or a text
\* that is no address
AddressesOf(type, p) ==
  {AsBytes(RawKey(p)), AsBytes(TYPE_ADDRESS(type, p)),
   [codec |-> "text", valid |-> FALSE, raw |-> NoAddress]}

\* two unlocked pairs, of any two types, of one seed or of two; the first signs,
\* and what is verified is drawn from the sets above
InitVerify ==
  \E ta \in Types, tb \in Types, kb \in {RootKey, OtherKey} :
    LET ps == [s \in Slots |->
                 IF s = 1 THEN createPair(ta, 1, 2, NoMeta, NoContainer, NoEncTypes)
                 ELSE IF s = 2 THEN createPair(tb, 3, 4, NoMeta, NoContainer, NoEncTypes)
                 ELSE NoPair]
        h == [b \in BufIds |->
                CASE b = 1 -> PublicOf(ta, RootKey)
                  [] b = 2 -> SecretOf(ta, RootKey)
                  [] b = 3 -> PublicOf(tb, kb)
                  [] b = 4 -> SecretOf(tb, kb)
                  [] OTHER -> FreeBuf]
    IN \E signed \in SignedMessages, who \in {1, 2} :
         \E message \in MessagesFor(signed),
            signature \in SignaturesOf(sign(ps, h, 1, signed, FALSE).ret.sig)
                          \cup SignaturesOf(Twofold(sign(ps, h, 1, signed, FALSE).ret.sig)),
            address \in AddressesOf(ps[who].type, h[ps[who].publicKey]) :
           /\ pairs = ps
           /\ heap = h
           /\ last = [op |-> "input", slot |-> 1, outcome |-> "ok",
                      ret |-> [kind |-> "input", signed |-> signed, message |-> message,
                               signature |-> signature, who |-> who, address |-> address],
                      steps |-> 0, wasLocked |-> FALSE]

\* signatureVerify(message, signature, addressOrPublicKey) on what was drawn
SignatureVerify ==
  /\ last.op = "input"
  /\ LET r == signatureVerify(last.ret.message, last.ret.signature, last.ret.address)
     IN last' = [last EXCEPT !.op = "signatureVerify",
                             !.outcome = IF r.threw # "" THEN r.threw ELSE "ok",
                             !.ret = [kind |-> "verifyResult", input |-> last.ret,
                                      result |-> r]]
  /\ UNCHANGED <<pairs, heap>>

\* pair.verify(message, signature, signerPublic) of the first pair on what was
\* drawn, the signer's public key handed over as it is
PairVerify ==
  /\ last.op = "input"
  /\ last.ret.address = AsBytes(RawKey(heap[pairs[last.ret.who].publicKey]))
  /\ LET r == verify(pairs, heap, 1, last.ret.message, last.ret.signature,
                     heap[pairs[last.ret.who].publicKey])
     IN last' = [last EXCEPT !.op = "verify",
                             !.outcome = r.outcome,
                             !.ret = [kind |-> "verified", input |-> last.ret,
                                      value |-> r.ret]]
  /\ UNCHANGED <<pairs, heap>>

NextVerify == SignatureVerify \/ PairVerify

SpecVerify == InitVerify /\ [][NextVerify]_vars

\* --------------------------------------------------------- metadata alone
\* the metadata objects of more than one key and value
WideMetas == UNION {[ks -> 1 .. MaxWideVal] : ks \in SUBSET (1 .. MaxWideKeys)}

\* a pair of any type, locked or not, with or without a container, constructed
\* with any metadata; last keeps the metadata of construction and what each
\* setMeta call was given
InitMeta ==
  \E type \in Types, hasSecret \in BOOLEAN, meta \in WideMetas :
    \E encoded \in {NoContainer,
                    Container(PublicOf(type, RootKey), SecretOf(type, RootKey),
                              "p", Latest, TRUE)} :
      /\ pairs = [s \in Slots |->
                    IF s = 1
                    THEN createPair(type, 1, IF hasSecret THEN 2 ELSE Undef,
                                    meta, encoded, NoEncTypes)
                    ELSE NoPair]
      /\ heap = [b \in BufIds |->
                   IF b = 1 THEN PublicOf(type, RootKey)
                   ELSE IF b = 2 /\ hasSecret THEN SecretOf(type, RootKey)
                   ELSE FreeBuf]
      /\ last = [op |-> "createPair", slot |-> 1, outcome |-> "ok",
                 ret |-> [kind |-> "metaLog", construction |-> meta, calls |-> <<>>],
                 steps |-> 0, wasLocked |-> ~hasSecret]

\* the metadata of construction and of the calls made so far
MetaLog == IF last.ret.kind = "meta" THEN last.ret.log ELSE last.ret

\* setMeta(additional), up to MaxMetaCalls times
SetMetaLogged == \E additional \in WideMetas :
  /\ Len(MetaLog.calls) < MaxMetaCalls
  /\ LET r == setMeta(pairs, heap, 1, additional)
     IN Call("setMeta", 1,
             Result(r.pairs, r.heap, r.outcome,
                    [MetaLog EXCEPT !.calls = Append(@, additional)], 0))

\* pair.meta read by the caller
GetMeta ==
  /\ last.op = "setMeta"
  /\ last' = [last EXCEPT !.op = "meta",
                          !.ret = [kind |-> "meta", meta |-> pairs[1].meta, log |-> MetaLog]]
  /\ UNCHANGED <<pairs, heap>>

NextMeta == SetMetaLogged \/ GetMeta

SpecMeta == InitMeta /\ [][NextMeta]_vars

\* ------------------------------------------------------------------ properties
Locked(s) == isLocked(heap, pairs[s].secretKey)
PublicKey(s) == heap[pairs[s].publicKey]
\* the pair holds the bytes of a secret key
HoldsSecretBytes(s) ==
  /\ pairs[s].secretKey # Undef
  /\ heap[pairs[s].secretKey].len > 0
  /\ heap[pairs[s].secretKey].kind = "sk"

\* C1: a locked pair signs nothing. For every type, sign and vrfSign on a pair
\* whose isLocked is true throw the locked-key error and return no bytes; the
\* pair is locked after lock(), so sign after lock() fails.
C1_LockedSignFails ==
  /\ \A s \in Slots : Live(s) /\ Locked(s) =>
       /\ \A m \in SignMessages, w \in BOOLEAN :
            LET r == sign(pairs, heap, s, m, w)
            IN r.outcome = ErrLockedSign /\ r.ret = NoRet
       /\ \A m \in SignMessages, c \in Contexts :
            LET r == vrfSign(pairs, heap, s, m, c, NoText)
            IN r.outcome = ErrLockedSign /\ r.ret = NoRet
  /\ (last.op \in {"sign", "vrfSign"} /\ last.wasLocked) =>
       (last.outcome = ErrLockedSign /\ last.ret = NoRet)
  /\ last.op = "lock" => Locked(last.slot)

\* sign was called on a pair that lock() had locked, and threw
C1_Witness ==
  /\ last.op = "sign" /\ last.outcome = ErrLockedSign
  /\ pairs[last.slot].secretKey # Undef

\* C2: lock() changes the secret key and nothing else. After it the pair is
\* locked; public key, address, addressRaw, type, meta and the cached container
\* are what they were; lock() right after lock() changes nothing at all.
C2_LockChangesOnlySecret ==
  [][last'.op = "lock" =>
       LET s == last'.slot
       IN /\ isLocked(heap', pairs'[s].secretKey)
          /\ heap'[pairs'[s].publicKey] = heap[pairs[s].publicKey]
          /\ encodeAddress(pairs', heap', s) = encodeAddress(pairs, heap, s)
          /\ addressRaw(pairs', heap', s) = addressRaw(pairs, heap, s)
          /\ pairs'[s].type = pairs[s].type
          /\ pairs'[s].meta = pairs[s].meta
          /\ pairs'[s].encoded = pairs[s].encoded
          /\ pairs'[s].encTypes = pairs[s].encTypes
          /\ (last.op = "lock" /\ last.slot = s) => (pairs' = pairs /\ heap' = heap)
    ]_vars

\* lock() was called on an unlocked pair that has a cached container
C2_Witness ==
  /\ last.op = "lock" /\ ~last.wasLocked /\ Locked(last.slot)
  /\ pairs[last.slot].encoded.present

\* C3: whatever was called, a pair has its public key, is locked exactly when it
\* holds no secret key bytes, and keeps the type it was constructed with.
C3_PairInvariant ==
  /\ [](\A s \in Slots : Live(s) =>
          /\ pairs[s].publicKey # Undef /\ PublicKey(s).len > 0
          /\ Locked(s) <=> ~HoldsSecretBytes(s))
  /\ [][\A s \in Slots : (Live(s) /\ pairs'[s].live) => pairs'[s].type = pairs[s].type]_vars

\* a pair that was constructed locked now holds the secret of another key
C3_Witness ==
  /\ last.op = "decodePkcs8" /\ last.outcome = "ok" /\ last.wasLocked
  /\ ~Locked(last.slot) /\ PublicKey(last.slot).key = OtherKey

\* C4: decodePkcs8 and unlock are all or nothing. When the call fails (the codec
\* rejects, the seed does not expand, the sizes are of no known generation) the
\* error reaches the caller and the pair is exactly what it was.
C4_DecodeAllOrNothing ==
  [][(last'.op \in {"decodePkcs8", "unlock"} /\ last'.outcome # "ok") =>
       /\ pairs' = pairs /\ heap' = heap
       /\ last'.outcome \in {ErrCodec, ErrSeed, ErrSizes}
       /\ last'.ret = NoRet
    ]_vars

\* decodePkcs8 failed after the codec had decoded the container
C4_Witness ==
  /\ last.op = "decodePkcs8" /\ last.outcome \in {ErrSeed, ErrSizes}
  /\ ~last.wasLocked /\ ~Locked(last.slot)

\* the key material of a pair: what the public key holds, whether there is a
\* secret key, and what it holds
KeyMaterial(ps, h, s) ==
  [publicKey |-> Deref(h, ps[s].publicKey), hasSecret |-> ps[s].secretKey # Undef,
   secretKey |-> Deref(h, ps[s].secretKey), isLocked |-> isLocked(h, ps[s].secretKey)]

\* everything a pair holds, by content
Full(ps, h, s) ==
  [live |-> ps[s].live, type |-> ps[s].type, keys |-> KeyMaterial(ps, h, s),
   meta |-> ps[s].meta, encoded |-> ps[s].encoded, encTypes |-> ps[s].encTypes]

Decoders == {"decodePkcs8", "unlock"}
Recoders == {"encodePkcs8", "toJson"}
Readers == {"sign", "vrfSign", "verify", "vrfVerify", "address", "addressRaw", "derive"}

\* C5 as stated: a locked pair becomes unlocked only through a successful
\* decodePkcs8 or unlock; encodePkcs8, toJson, setMeta, sign, verify, vrfVerify,
\* address, addressRaw and derive leave lock state and key material alone; the
\* only mutators besides decoding are lock and setMeta.
C5_OnlyDecodeUnlocks ==
  [][LET s == last'.slot
     IN /\ (isLocked(heap, pairs[s].secretKey) /\ ~isLocked(heap', pairs'[s].secretKey)) =>
             (last'.op \in Decoders /\ last'.outcome = "ok")
        /\ last'.op \in Recoders \cup Readers \cup {"setMeta"} =>
             KeyMaterial(pairs', heap', s) = KeyMaterial(pairs, heap, s)
        /\ last'.op \notin Decoders \cup {"lock", "setMeta"} =>
             (pairs' = pairs /\ heap' = heap)
    ]_vars

\* C5: a locked pair becomes unlocked only through a successful decodePkcs8 or
\* unlock, or through encodePkcs8 or toJson called on a locked pair that has a
\* cached container, which decode it into the pair first. setMeta, sign, vrfSign,
\* verify, vrfVerify, address, addressRaw and derive leave lock state and key
\* material alone, and so do encodePkcs8 and toJson on any other pair. The
\* mutators besides decoding are lock, setMeta, and encodePkcs8 and toJson, which
\* replace the cached container and forget the accepted legacy encodings.
C5_UnlockOnlyByDecoding ==
  [][LET s == last'.slot
         decodes == isLocked(heap, pairs[s].secretKey) /\ pairs[s].encoded.present
     IN /\ (isLocked(heap, pairs[s].secretKey) /\ ~isLocked(heap', pairs'[s].secretKey)) =>
             \/ last'.op \in Decoders /\ last'.outcome = "ok"
             \/ last'.op \in Recoders /\ last'.outcome = "ok" /\ pairs[s].encoded.present
        /\ last'.op \in Readers \cup {"setMeta"} =>
             KeyMaterial(pairs', heap', s) = KeyMaterial(pairs, heap, s)
        /\ (last'.op \in Recoders /\ ~decodes) =>
             KeyMaterial(pairs', heap', s) = KeyMaterial(pairs, heap, s)
        /\ last'.op \in Readers => (pairs' = pairs /\ heap' = heap)
        /\ last'.op \in Recoders =>
             /\ pairs'[s].meta = pairs[s].meta /\ pairs'[s].type = pairs[s].type
             /\ last'.outcome = "ok" =>
                  (pairs'[s].encoded.present /\ pairs'[s].encTypes = NoEncTypes)
             /\ (last'.outcome # "ok" /\ ~decodes) => (pairs' = pairs /\ heap' = heap)
        /\ last'.op = "setMeta" =>
             [Full(pairs', heap', s) EXCEPT !.meta = pairs[s].meta] = Full(pairs, heap, s)
    ]_vars

\* encodePkcs8 was called on a locked pair and left it unlocked
C5_Witness ==
  /\ last.op = "encodePkcs8" /\ last.outcome = "ok"
  /\ last.wasLocked /\ ~Locked(last.slot)

\* C6 as stated: lock() takes every unlocked pair to Locked, and every locked
\* pair has a passphrase with which unlock takes it to Unlocked.
C6_NoTerminalState ==
  \A s \in Slots : Live(s) =>
    /\ ~Locked(s) =>
         LET l == lock(pairs, heap, s) IN isLocked(l.heap, l.pairs[s].secretKey)
    /\ Locked(s) =>
         \E passphrase \in Pass :
           LET u == unlock(pairs, heap, s, passphrase)
           IN u.outcome = "ok" /\ ~isLocked(u.heap, u.pairs[s].secretKey)

\* C6: lock() takes every unlocked pair to Locked. unlock takes a locked pair to
\* Unlocked only when the pair has a cached container: a pair without one (made
\* from keys or a seed, from a public key only, or by derive, and never encoded)
\* fails every unlock with the codec's error and stays as it is. Once encodePkcs8
\* or toJson has succeeded and the pair is unlocked, lock() and unlock with that
\* passphrase cycle it, with the same keys, as often as they are called.
C6_LockUnlockCycle ==
  \A s \in Slots : Live(s) =>
    /\ ~Locked(s) =>
         LET l == lock(pairs, heap, s) IN isLocked(l.heap, l.pairs[s].secretKey)
    /\ ~pairs[s].encoded.present =>
         \A passphrase \in Pass :
           LET u == unlock(pairs, heap, s, passphrase)
           IN u.outcome = ErrCodec /\ u.pairs = pairs /\ u.heap = heap
    /\ (last.slot = s /\ last.op \in Recoders /\ last.outcome = "ok" /\ ~Locked(s)) =>
         LET passphrase == pairs[s].encoded.pass
             l1 == lock(pairs, heap, s)
             u1 == unlock(l1.pairs, l1.heap, s, passphrase)
             l2 == lock(u1.pairs, u1.heap, s)
             u2 == unlock(l2.pairs, l2.heap, s, passphrase)
         IN /\ isLocked(l1.heap, l1.pairs[s].secretKey)
            /\ u1.outcome = "ok"
            /\ KeyMaterial(u1.pairs, u1.heap, s) = KeyMaterial(pairs, heap, s)
            /\ isLocked(l2.heap, l2.pairs[s].secretKey)
            /\ u2.outcome = "ok"
            /\ Full(u2.pairs, u2.heap, s) = Full(u1.pairs, u1.heap, s)
    /\ (last.slot = s /\ last.op = "unlock" /\ last.outcome = "ok") => ~Locked(s)

\* a pair was encoded with the empty passphrase, locked, and unlocked again
C6_Witness ==
  /\ last.op = "unlock" /\ last.outcome = "ok" /\ last.wasLocked
  /\ ~Locked(last.slot)
  /\ pairs[last.slot].encoded.gen = Latest /\ pairs[last.slot].encoded.pass = ""

\* C7: derive on an ethereum pair or on a locked pair throws a usage error and
\* returns no pair; the pair is what it was and no derivation step has run.
C7_DeriveUsageErrors ==
  /\ \A s \in Slots : (Live(s) /\ (pairs[s].type = "ethereum" \/ Locked(s))) =>
       \A suri \in Suris, meta \in Metas :
         LET r == derive(pairs, heap, s, suri, meta)
         IN /\ r.outcome = (IF pairs[s].type = "ethereum" THEN ErrDerive ELSE ErrLockedDerive)
            /\ r.ret = NoRet /\ r.steps = 0
            /\ r.pairs = pairs /\ r.heap = heap
  /\ (last.op = "derive" /\ (pairs[last.slot].type = "ethereum" \/ last.wasLocked)) =>
       /\ last.outcome \in {ErrDerive, ErrLockedDerive}
       /\ last.ret = NoRet /\ last.steps = 0

\* derive was called on an unlocked ethereum pair, and threw
C7_Witness ==
  /\ last.op = "derive" /\ last.outcome = ErrDerive
  /\ pairs[last.slot].type = "ethereum" /\ ~last.wasLocked

\* C8: derive leaves the parent as it was and returns a new unlocked pair of the
\* parent's type; lock, setMeta, decodePkcs8 and unlock on one pair leave every
\* other pair as it was, the parent and a child of the empty path included.
C8_DeriveIndependent ==
  [][LET s == last'.slot
     IN /\ last'.op = "derive" =>
             /\ Full(pairs', heap', s) = Full(pairs, heap, s)
             /\ last'.outcome # "ok" => (pairs' = pairs /\ heap' = heap)
             /\ (last'.outcome = "ok" /\ last'.ret.kind = "pair") =>
                  LET c == last'.ret.slot
                  IN /\ c # s /\ ~pairs[c].live /\ pairs'[c].live
                     /\ ~isLocked(heap', pairs'[c].secretKey)
                     /\ pairs'[c].type = pairs[s].type
                     /\ \A q \in Slots \ {c} : Full(pairs', heap', q) = Full(pairs, heap, q)
        /\ last'.op \in {"lock", "setMeta", "decodePkcs8", "unlock"} =>
             \A q \in Slots \ {s} : Full(pairs', heap', q) = Full(pairs, heap, q)
    ]_vars

\* the parent was locked while a child of the empty path held the same secret
C8_Witness ==
  /\ last.op = "lock" /\ ~last.wasLocked /\ Locked(last.slot)
  /\ \E c \in Slots \ {last.slot} :
       /\ Live(c) /\ ~Locked(c)
       /\ PublicKey(c) = PublicKey(last.slot)

\* C9: for every type but ethereum, derive with the empty path on an unlocked pair
\* returns a pair with the public key and the address of the original; keyFromPath
\* with no junctions returns the keypair it was given and runs no derivation step.
C9_EmptyPathIdentity ==
  /\ \A s \in Slots : (Live(s) /\ pairs[s].type # "ethereum" /\ ~Locked(s)) =>
       /\ \A meta \in Metas :
            LET r == derive(pairs, heap, s, <<>>, meta)
            IN /\ r.outcome = "ok" /\ r.steps = 0
               /\ r.heap[r.ret.pair.publicKey] = PublicKey(s)
               /\ TYPE_ADDRESS(r.ret.pair.type, r.heap[r.ret.pair.publicKey])
                    = addressRaw(pairs, heap, s)
       /\ LET k == keyFromPath(Refs(pairs), heap, pairs[s].publicKey, pairs[s].secretKey,
                               <<>>, pairs[s].type)
          IN /\ k.ok /\ k.steps = 0 /\ k.heap = heap
             /\ k.publicKey = pairs[s].publicKey /\ k.secretKey = pairs[s].secretKey
  /\ (last.op = "derive" /\ last.outcome = "ok" /\ last.steps = 0) =>
       /\ PublicKey(last.ret.slot) = PublicKey(last.slot)
       /\ encodeAddress(pairs, heap, last.ret.slot) = encodeAddress(pairs, heap, last.slot)

\* derive with the empty path returned a pair
C9_Witness ==
  /\ last.op = "derive" /\ last.outcome = "ok" /\ last.steps = 0
  /\ Live(last.ret.slot) /\ last.ret.slot # last.slot
  /\ pairs[last.slot].type # "ethereum"

\* C10: derive is a function of the parent's keys, its type, and the path. Two
\* pairs of one type with the same keys, whatever their metadata, cached container
\* and history, give children with the same public key for the same path, and the
\* metadata handed to derive does not matter either.
C10_DeriveDeterministic ==
  \A a, b \in Slots :
    ( /\ Live(a) /\ Live(b) /\ pairs[a].type = pairs[b].type
      /\ KeyMaterial(pairs, heap, a) = KeyMaterial(pairs, heap, b) ) =>
    \A suri \in Suris, ma, mb \in Metas :
      LET ra == derive(pairs, heap, a, suri, ma)
          rb == derive(pairs, heap, b, suri, mb)
      IN /\ ra.outcome = rb.outcome
         /\ ra.outcome = "ok" =>
              ra.heap[ra.ret.pair.publicKey] = rb.heap[rb.ret.pair.publicKey]

\* two unlocked pairs hold the same keys, one with a cached container of another
\* key and one with none
C10_Witness ==
  \E a, b \in Slots :
    /\ a # b /\ Live(a) /\ Live(b) /\ ~Locked(a) /\ ~Locked(b)
    /\ pairs[a].type = pairs[b].type /\ pairs[a].type # "ethereum"
    /\ KeyMaterial(pairs, heap, a) = KeyMaterial(pairs, heap, b)
    /\ pairs[a].encoded.present /\ ~pairs[b].encoded.present
    /\ pairs[a].encoded.publicKey.key # PublicKey(a).key

\* what signatureVerify was handed and what it gave
Input == IF last.ret.kind = "input" THEN last.ret ELSE last.ret.input
Engine == last.op = "signatureVerify"
Outcome == last.ret.result

\* the lengths the claims name: 64, 65, 66, L and L + 1
RecognisedLengths == {64, 65, 66, MLDSA_SIGNATURE_LENGTH, MLDSA_SIGNATURE_LENGTH + 1}

\* the length is in the window of the prefixed format
InPrefixedWindow(signature) ==
  u8aLength(signature) \in {65, 66, MLDSA_SIGNATURE_LENGTH + 1}

\* the algorithms a discriminator byte names
Implied(byte) == CASE byte = 0 -> {"ed25519"}
                   [] byte = 1 -> {"sr25519"}
                   [] byte = 2 -> {"ecdsa", "ethereum"}
                   [] byte = 3 -> {"mldsa"}
                   [] OTHER -> {}

Range(seq) == {seq[i] : i \in 1 .. Len(seq)}

\* C11: a signature whose length is none of 64, 65, 66, L, L + 1 makes
\* signatureVerify throw the length error, whether or not the address decodes,
\* with no verifier called; it never gives a result for it.
C11_LengthErrorFirst ==
  (Engine /\ u8aLength(Input.signature) \notin RecognisedLengths) =>
    /\ last.outcome = ErrSigLength
    /\ Outcome.threw = ErrSigLength
    /\ Outcome.tried = <<>> /\ Outcome.calls = <<>> /\ Outcome.passes = 0

\* a signature of 67 bytes was handed over with a text that is no address
C11_Witness ==
  /\ Engine /\ u8aLength(Input.signature) = 67
  /\ ~Input.address.valid
  /\ last.outcome = ErrSigLength

\* C12 as stated: for a signature classified as prefixed, only the algorithm the
\* discriminator byte names is tried, and the crypto reported is that algorithm
\* or none.
C12_OnlyImpliedAlgorithm ==
  (Engine /\ Outcome.calls # <<>> /\ Outcome.calls[1].fn = "verifyMultisig") =>
    /\ Range(Outcome.tried) \subseteq Implied(u8aFirst(Input.signature))
    /\ Outcome.crypto \in Implied(u8aFirst(Input.signature)) \cup {"none"}

\* the verifiers one pass over a prefixed signature goes through, by its length
PrefixedTrials(signature) ==
  IF u8aLength(signature) = MLDSA_SIGNATURE_LENGTH + 1 THEN <<"mldsa">>
  ELSE IF u8aLength(signature) = 66 THEN <<"ecdsa", "ethereum">>
  ELSE <<"ed25519", "mldsa", "sr25519", "ecdsa", "ethereum">>

\* tried is what one or two passes over trials leave: each pass stops at the
\* first verifier that accepts, and a second pass follows a pass that none did
TriedOver(tried, passes, trials, isValid) ==
  \E k \in 1 .. Len(trials) :
    /\ tried = (IF passes = 2 THEN trials ELSE <<>>) \o SubSeq(trials, 1, k)
    /\ ~isValid => k = Len(trials)

\* C12: for a signature classified as prefixed the verifiers are chosen by the
\* length and not by the value of the byte. With byte 3 and L + 1 bytes the byte
\* is stripped and only mldsa is tried; with 66 bytes the byte is stripped and
\* ecdsa then ethereum are tried; with 65 bytes ed25519, mldsa and sr25519 are
\* tried on the stripped signature and then ecdsa and ethereum on the whole of
\* it. The crypto reported is the first that accepts, or none, and need not be
\* the one the byte names.
C12_PrefixedByLength ==
  (Engine /\ Outcome.calls # <<>> /\ Outcome.calls[1].fn = "verifyMultisig") =>
    /\ Outcome.threw = ""
    /\ u8aFirst(Input.signature) \in {0, 1, 2, 3}
    /\ TriedOver(Outcome.tried, Outcome.passes, PrefixedTrials(Input.signature),
                 Outcome.isValid)
    /\ Outcome.isValid <=> Outcome.crypto # "none"
    /\ Outcome.isValid => Outcome.crypto = Outcome.tried[Len(Outcome.tried)]
    /\ (Outcome.isValid /\ Outcome.crypto \in {"ed25519", "mldsa", "sr25519"}) =>
         Input.signature.head # <<>>

\* a signature of sr25519 under the byte of ed25519 was found valid, as sr25519
C12_Witness ==
  /\ Engine /\ Outcome.calls # <<>> /\ Outcome.calls[1].fn = "verifyMultisig"
  /\ u8aFirst(Input.signature) = 0
  /\ Outcome.isValid /\ Outcome.crypto = "sr25519"

\* C13 as stated: a signature whose length is in the window of the prefixed
\* format and whose first byte is none of 0, 1, 2, 3 makes signatureVerify throw
\* a format error (the address being one that decodes).
C13_BadDiscriminatorThrows ==
  ( /\ Engine /\ Input.address.valid
    /\ InPrefixedWindow(Input.signature)
    /\ u8aFirst(Input.signature) \notin {0, 1, 2, 3} ) =>
    Outcome.threw # ""

\* C13: a signature whose length is in the window of the prefixed format and
\* whose first byte is none of 0, 1, 2, 3 is taken for a bare one: all five
\* verifiers are tried in order on the whole of it and signatureVerify gives a
\* result, valid when it is a bare secp256k1 signature of the key and
\* {isValid: false, crypto: none} otherwise. signatureVerify never throws the
\* error of an unknown discriminator, whatever it is handed.
C13_BadDiscriminatorIsBare ==
  /\ ( /\ Engine /\ Input.address.valid
       /\ InPrefixedWindow(Input.signature)
       /\ u8aFirst(Input.signature) \notin {0, 1, 2, 3} ) =>
       /\ Outcome.threw = ""
       /\ \A i \in 1 .. Len(Outcome.calls) : Outcome.calls[i].fn = "verifyDetect"
       /\ TriedOver(Outcome.tried, Outcome.passes,
                    <<"ed25519", "mldsa", "sr25519", "ecdsa", "ethereum">>,
                    Outcome.isValid)
       /\ Outcome.isValid <=> Outcome.crypto # "none"
       /\ Outcome.isValid =>
            /\ Outcome.crypto \in {"ecdsa", "ethereum"}
            /\ Input.signature.head = <<>> /\ u8aLength(Input.signature) = 65
  /\ Engine => Outcome.threw # ErrUnknownCrypto

\* a bare ecdsa signature of 65 bytes whose first byte is no discriminator was
\* found valid
C13_Witness ==
  /\ Engine /\ Input.address.valid
  /\ u8aLength(Input.signature) = 65
  /\ u8aFirst(Input.signature) \notin {0, 1, 2, 3}
  /\ Outcome.isValid /\ Outcome.crypto = "ecdsa"

\* the verifiers one pass goes through: by the length for a prefixed signature,
\* all five for a bare one
Trials == IF Outcome.calls[1].fn = "verifyMultisig"
          THEN PrefixedTrials(Input.signature)
          ELSE <<"ed25519", "mldsa", "sr25519", "ecdsa", "ethereum">>

\* C14: for a signature of a recognised length and an address that decodes,
\* signatureVerify returns a result and does not throw; a verifier that returns
\* false or throws makes it go on to the next, and when none accepts in any pass
\* the result is {isValid: false, crypto: none}.
C14_ResultNotError ==
  ( /\ Engine /\ Input.address.valid
    /\ u8aLength(Input.signature) \in RecognisedLengths ) =>
    /\ last.outcome = "ok" /\ Outcome.threw = ""
    /\ Outcome.passes \in {1, 2}
    /\ Outcome.isValid <=> Outcome.crypto # "none"
    /\ ~Outcome.isValid => Len(Outcome.tried) = Outcome.passes * Len(Trials)
    /\ Outcome.isValid => Verifies(Outcome.crypto,
                                   Outcome.calls[Outcome.passes].message,
                                   IF Input.signature.head = <<>> THEN Input.signature
                                   ELSE u8aSubarray1(Input.signature),
                                   Outcome.publicKey)

\* a bare mldsa signature was found valid after ed25519 had thrown on its length
C14_Witness ==
  /\ Engine /\ Outcome.calls # <<>> /\ Outcome.calls[1].fn = "verifyDetect"
  /\ Outcome.isValid /\ Outcome.crypto = "mldsa"
  /\ Outcome.tried = <<"ed25519", "mldsa">>
  /\ PrimitiveThrows("ed25519", Input.signature, Outcome.publicKey)

\* one pass of the engine over a message, from a result that nothing is in yet
PassOn(message) ==
  verifyFn(Outcome.calls[1].fn,
           [Outcome EXCEPT !.crypto = "none", !.isValid = FALSE, !.tried = <<>>,
                           !.calls = <<>>, !.passes = 1],
           message, Outcome.publicKey, Input.signature)

\* C15: signatureVerify runs one pass or two. The second runs exactly when the
\* first found no algorithm and the message is not in the ethereum envelope; it is
\* handed the message with one envelope taken off (when it has one) or put on
\* (when it has none), and the same signature, public key and path; what it gives
\* is the result.
C15_AtMostTwoPasses ==
  (Engine /\ Outcome.threw = "") =>
    LET m == Input.message
        eth == u8aIsWrapped(m, TRUE) /\ ~u8aIsWrapped(m, FALSE)
        other == IF u8aIsWrapped(m, FALSE) THEN u8aUnwrapBytes(m) ELSE u8aWrapBytes(m)
    IN /\ Outcome.passes \in {1, 2} /\ Len(Outcome.calls) = Outcome.passes
       /\ Outcome.calls[1].message = m
       /\ Outcome.calls[1].signature = Input.signature
       /\ Outcome.passes = 2 <=> (PassOn(m).crypto = "none" /\ ~eth)
       /\ Outcome.passes = 1 =>
            /\ Outcome.crypto = PassOn(m).crypto
            /\ Outcome.isValid = PassOn(m).isValid
       /\ Outcome.passes = 2 =>
            /\ Outcome.calls[2] = [Outcome.calls[1] EXCEPT !.message = other]
            /\ other.body = m.body /\ other.form # m.form
            /\ m.form # "bytes2" => (u8aIsWrapped(other, FALSE) # u8aIsWrapped(m, FALSE))
            /\ Outcome.crypto = PassOn(other).crypto
            /\ Outcome.isValid = PassOn(other).isValid

\* two passes over all five verifiers found nothing
C15_Witness ==
  /\ Engine /\ Outcome.threw = ""
  /\ Outcome.passes = 2 /\ ~Outcome.isValid /\ Outcome.crypto = "none"
  /\ Len(Outcome.tried) = 10

\* signatures of the first pair over what it signed: bare, and with its type
Genuine ==
  LET bare == sign(pairs, heap, 1, Input.signed, FALSE).ret.sig
  IN {bare, u8aConcat(TYPE_PREFIX(pairs[1].type), bare)}

SignerKey == AsBytes(RawKey(heap[pairs[1].publicKey]))

\* C16: a signature valid for a public key over m is reported valid, with the
\* same algorithm, when signatureVerify is handed m in the envelope; a signature
\* over m in the envelope is reported valid when signatureVerify is handed m; for
\* every algorithm.
C16_WrappingTolerated ==
  ( /\ Engine /\ Input.signature \in Genuine /\ Input.address = SignerKey
    /\ \/ Input.message = u8aWrapBytes(Input.signed)
       \/ Input.signed = u8aWrapBytes(Input.message) ) =>
    /\ Outcome.threw = ""
    /\ Outcome.isValid /\ Outcome.crypto = pairs[1].type

\* an sr25519 signature over a message was found valid, in the second pass, for
\* the message in the envelope
C16_Witness ==
  /\ Engine /\ Input.signature \in Genuine /\ Input.address = SignerKey
  /\ pairs[1].type = "sr25519"
  /\ Input.signed.form = "plain" /\ Input.message = u8aWrapBytes(Input.signed)
  /\ Outcome.passes = 2 /\ Outcome.isValid /\ Outcome.crypto = "sr25519"

\* pair.verify of the first pair was handed what it signed, a signature of its
\* own, and its public key
RoundTrip ==
  /\ last.op = "verify" /\ Input.who = 1
  /\ Input.message = Input.signed /\ Input.signature \in Genuine

\* signatureVerify was handed the same
EngineRoundTrip ==
  /\ Engine /\ Input.address = SignerKey
  /\ Input.message = Input.signed /\ Input.signature \in Genuine

Foreign ==
  /\ Engine /\ Input.who = 2 /\ Input.address.valid
  /\ Input.signature = u8aConcat(TYPE_PREFIX(pairs[1].type),
                                 sign(pairs, heap, 1, Input.signed, FALSE).ret.sig)

\* C18 as stated: a signature with its type of a pair of algorithm A, against the
\* public key of a pair of another algorithm, gives {isValid: false, crypto:
\* none} or a format error, never valid.
C18_NoCrossAlgorithm ==
  (Foreign /\ pairs[2].type # pairs[1].type) =>
    /\ ~Outcome.isValid
    /\ Outcome.threw # "" \/ Outcome.crypto = "none"

\* C18: a signature with its type of a pair of algorithm A, against the public
\* key of a pair of another key family (ed25519, sr25519, secp256k1, mldsa) or of
\* another seed, gives {isValid: false, crypto: none} or a format error, never
\* valid. ecdsa and ethereum pairs of one seed have the same secp256k1 public
\* key: the signature of one is valid against the public key of the other, and
\* is reported with the signer's algorithm.
C18_NoCrossFamily ==
  (Foreign /\ pairs[2].type # pairs[1].type) =>
    /\ (KeyAlg(pairs[2].type) # KeyAlg(pairs[1].type)
        \/ heap[pairs[2].publicKey].key # heap[pairs[1].publicKey].key) =>
         /\ ~Outcome.isValid
         /\ Outcome.threw # "" \/ Outcome.crypto = "none"
    /\ Outcome.isValid =>
         /\ {pairs[1].type, pairs[2].type} = {"ecdsa", "ethereum"}
         /\ Outcome.crypto = pairs[1].type
         /\ heap[pairs[2].publicKey] = heap[pairs[1].publicKey]

\* an ed25519 signature with its type was verified against the public key of an
\* sr25519 pair of the same seed, and found invalid
C18_Witness ==
  /\ Foreign /\ pairs[1].type = "ed25519" /\ pairs[2].type = "sr25519"
  /\ heap[pairs[2].publicKey].key = heap[pairs[1].publicKey].key
  /\ Input.message = Input.signed
  /\ ~Outcome.isValid /\ Outcome.crypto = "none" /\ Outcome.threw = ""

\* the discriminator of each type, as the convention has it
Discriminator(type) == CASE type = "ed25519" -> 0
                         [] type = "sr25519" -> 1
                         [] type \in {"ecdsa", "ethereum"} -> 2
                         [] type = "mldsa" -> 3

\* C19: sign with the type returns one discriminator byte (0 ed25519, 1 sr25519,
\* 2 ecdsa and ethereum, 3 mldsa) and then the bare signature of the algorithm;
\* without it, the bare signature and nothing before it; each of the four tables
\* has an entry for each of the five types.
C19_SelfDescribingSignature ==
  /\ \A s \in Slots : (Live(s) /\ ~Locked(s)) =>
       \A m \in SignMessages :
         LET type == pairs[s].type
             typed == sign(pairs, heap, s, m, TRUE)
             bare == sign(pairs, heap, s, m, FALSE)
             raw == TYPE_SIGNATURE(type, m, heap[pairs[s].publicKey],
                                   heap[pairs[s].secretKey])
         IN /\ typed.outcome = "ok" /\ bare.outcome = "ok"
            /\ bare.ret.sig = raw /\ raw.head = <<>>
            /\ u8aLength(bare.ret.sig) = SigLen(type)
            /\ typed.ret.sig.head = <<Discriminator(type)>>
            /\ u8aFirst(typed.ret.sig) = Discriminator(type)
            /\ u8aLength(typed.ret.sig) = SigLen(type) + 1
            /\ u8aSubarray1(typed.ret.sig) = raw
  /\ \A type \in Types :
       /\ TYPE_FROM_SEED(type, SeedOf(RootKey)).ok
       /\ TYPE_FROM_SEED(type, SeedOf(RootKey)).publicKey.len = PkLen(type)
       /\ TYPE_PREFIX(type) = <<Discriminator(type)>>
       /\ TYPE_ADDRESS(type, PublicOf(type, RootKey)).len > 0
       /\ u8aLength(TYPE_SIGNATURE(type, NoMsg, PublicOf(type, RootKey),
                                   SecretOf(type, RootKey))) = SigLen(type)
  /\ (last.op = "sign" /\ last.outcome = "ok") =>
       last.ret.sig.head \in {<<>>, <<Discriminator(pairs[last.slot].type)>>}

\* an mldsa pair signed with its type
C19_Witness ==
  /\ last.op = "sign" /\ last.outcome = "ok"
  /\ pairs[last.slot].type = "mldsa"
  /\ last.ret.sig.head = <<3>>
  /\ u8aLength(last.ret.sig) = MLDSA_SIGNATURE_LENGTH + 1

\* C20: lock() overwrites the buffer that held the secret key: once it has
\* returned, that buffer does not hold the secret, whoever still refers to it.
C20_LockOverwrites ==
  \A s \in Slots : (Live(s) /\ ~Locked(s)) =>
    LET l == lock(pairs, heap, s)
    IN /\ isLocked(l.heap, l.pairs[s].secretKey)
       /\ l.heap[pairs[s].secretKey] # heap[pairs[s].secretKey]

\* the calls of the log that contained key k
CallsWith(k) == {i \in 1 .. Len(MetaLog.calls) : k \in DOMAIN MetaLog.calls[i]}
Latest_(calls) == CHOOSE i \in calls : \A j \in calls : j <= i

\* C21: setMeta merges. After any sequence of setMeta calls each metadata key has
\* the value of the latest call that contained it, or the value of construction
\* when no call did; no key is removed; a setMeta call changes neither the keys,
\* the lock state, the type nor the cached container.
C21_SetMetaMerges ==
  /\ [](LET meta == pairs[1].meta
        IN /\ DOMAIN meta = (DOMAIN MetaLog.construction)
                            \cup UNION {DOMAIN MetaLog.calls[i] : i \in 1 .. Len(MetaLog.calls)}
           /\ \A k \in DOMAIN meta :
                meta[k] = IF CallsWith(k) = {} THEN MetaLog.construction[k]
                          ELSE MetaLog.calls[Latest_(CallsWith(k))][k]
           /\ last.op = "meta" => last.ret.meta = meta)
  /\ [][last'.op = "setMeta" =>
          /\ last'.outcome = "ok"
          /\ DOMAIN pairs[1].meta \subseteq DOMAIN pairs'[1].meta
          /\ KeyMaterial(pairs', heap', 1) = KeyMaterial(pairs, heap, 1)
          /\ pairs'[1].type = pairs[1].type
          /\ pairs'[1].encoded = pairs[1].encoded
          /\ pairs'[1].encTypes = pairs[1].encTypes
      ]_vars

\* a key of construction was given another value by one call, a later call did
\* not contain it, and the pair has the value of the former call
C21_Witness ==
  /\ last.op = "meta" /\ Len(MetaLog.calls) = 3
  /\ 1 \in DOMAIN MetaLog.construction /\ MetaLog.construction[1] = 1
  /\ 1 \in DOMAIN MetaLog.calls[1] /\ MetaLog.calls[1][1] = 1
  /\ 1 \in DOMAIN MetaLog.calls[2] /\ MetaLog.calls[2][1] = 2
  /\ 1 \notin DOMAIN MetaLog.calls[3] /\ 2 \in DOMAIN MetaLog.calls[3]
  /\ last.ret.meta[1] = 2 /\ 2 \in DOMAIN last.ret.meta

\* the pairs that can sign
Signers == {s \in Slots : Live(s) /\ ~Locked(s)}

\* C22: VRF round trip. For every type and every unlocked pair, vrfVerify of what
\* vrfSign gave for the message, with the signer's public key and the context and
\* extra of the signing, is true; for the types other than sr25519 what vrfSign
\* gave is the hash of (context, extra, signature) followed by the ordinary
\* signature.
C22_VrfRoundTrip ==
  \A s \in Signers, m \in SignMessages, c \in Contexts, e \in Contexts :
    LET signed == vrfSign(pairs, heap, s, m, c, e)
        checked == vrfVerify(pairs, heap, s, m, signed.ret.vrf, PublicKey(s), c, e)
        proof == TYPE_SIGNATURE(pairs[s].type, m, PublicKey(s), heap[pairs[s].secretKey])
    IN /\ signed.outcome = "ok"
       /\ checked.outcome = "ok" /\ checked.ret.value
       /\ pairs[s].type # "sr25519" =>
            /\ ~signed.ret.vrf.native
            /\ signed.ret.vrf.proof = proof
            /\ signed.ret.vrf.out = vrfHash(proof, c, e)

\* what is handed to vrfVerify of pair s: what the pair's vrfSign gave, the same
\* with its first 32 bytes changed, and the same with the signature of nobody
VrfCandidates(s) ==
  LET made == {vrfSign(pairs, heap, s, m, c, e).ret.vrf :
                 m \in SignMessages, c \in Contexts, e \in Contexts}
  IN made \cup {[r EXCEPT !.out.hash = "changed"] : r \in made}
          \cup {[r EXCEPT !.proof = SigBytes(<<>>, "garbage", NoKey, NoMsg, 255, r.proof.len)] :
                  r \in made}
\* the signer public keys handed to vrfVerify of pair s: its own and another
VrfSigners(s) == {PublicKey(s), PublicOf(pairs[s].type, OtherKey)}
\* the embedded signature of r, with the discriminator, verified as an ordinary one
Embedded(s, m, r, signerPublic) ==
  signatureVerify(m, u8aConcat(TYPE_PREFIX(pairs[s].type), VrfProof(r)),
                  AsBytes(TYPE_ADDRESS(pairs[s].type, signerPublic)))
Accepts(s, m, r, signerPublic, c, e) ==
  LET v == vrfVerify(pairs, heap, s, m, r, signerPublic, c, e)
  IN v.outcome = "ok" /\ v.ret.value

\* C23 as stated: for the types other than sr25519, vrfVerify is true only if the
\* embedded signature verifies and the first 32 bytes are the recomputed hash; a
\* result verified with a different context or extra is rejected.
C23_VrfBothChecks ==
  \A s \in Signers :
    pairs[s].type # "sr25519" =>
      \A m \in SignMessages, c \in Contexts, e \in Contexts, signerPublic \in VrfSigners(s) :
        /\ \A r \in VrfCandidates(s) :
             Accepts(s, m, r, signerPublic, c, e) =>
               /\ Embedded(s, m, r, signerPublic).isValid
               /\ r.out = vrfHash(VrfProof(r), c, e)
               /\ r.out.hash # "changed"
        /\ \A c0 \in Contexts, e0 \in Contexts :
             (c0 # c \/ e0 # e) =>
               ~Accepts(s, m, vrfSign(pairs, heap, s, m, c0, e0).ret.vrf, signerPublic, c, e)

\* C23: for the types other than sr25519, vrfVerify is true only if the embedded
\* signature (with the discriminator of the type put back) verifies as an
\* ordinary signature of the message against the address transform of the signer
\* public key, and the first 32 bytes are the recomputed hash of (context, extra,
\* embedded signature); a result with any of its first 32 bytes changed is
\* rejected, and so is one verified with a context and extra whose concatenation
\* is not that of the signing; a context and extra that concatenate to the same
\* bytes are accepted.
C23_VrfBothChecksOnConcatenation ==
  /\ \A s \in Signers :
       pairs[s].type # "sr25519" =>
         \A m \in SignMessages, c \in Contexts, e \in Contexts, signerPublic \in VrfSigners(s) :
           /\ \A r \in VrfCandidates(s) :
                Accepts(s, m, r, signerPublic, c, e) =>
                  /\ Embedded(s, m, r, signerPublic).isValid
                  /\ r.out = vrfHash(VrfProof(r), c, e)
                  /\ r.out.hash # "changed"
           /\ \A c0 \in Contexts, e0 \in Contexts :
                LET r == vrfSign(pairs, heap, s, m, c0, e0).ret.vrf
                IN /\ c0 \o e0 # c \o e => ~Accepts(s, m, r, signerPublic, c, e)
                   /\ (c0 \o e0 = c \o e /\ Embedded(s, m, r, signerPublic).isValid)
                        => Accepts(s, m, r, signerPublic, c, e)
  /\ (last.op = "vrfVerify" /\ last.outcome = "ok" /\ pairs[last.slot].type # "sr25519"
      /\ last.ret.value) =>
       \E m \in SignMessages, c \in Contexts, r \in KnownVrfResults :
         /\ Embedded(last.slot, m, r, PublicKey(last.slot)).isValid
         /\ r.out = vrfHash(VrfProof(r), c, NoText)

\* an ed25519 pair was handed what it had made itself, with another context, and
\* rejected it
C23_Witness ==
  /\ last.op = "vrfVerify" /\ last.outcome = "ok" /\ ~last.ret.value
  /\ pairs[last.slot].type = "ed25519"
  /\ \A m \in SignMessages, r \in KnownVrfResults :
       Embedded(last.slot, m, r, PublicKey(last.slot)).isValid

\* the public key handed to pair.verify
SignerPublic == heap[pairs[Input.who].publicKey]

\* C24: pair.verify goes by the type of the pair. An mldsa pair hands the
\* signature as it is, the message as it is and the public key as it is to the
\* lattice primitive and returns false, never an error, when that rejects or
\* throws: it is true only for the bare lattice signature of exactly this message
\* by this key. A pair of another type returns the isValid of
\* signatureVerify(message, signature, address transform of the public key).
C24_VerifyDispatch ==
  last.op = "verify" =>
    IF pairs[1].type = "mldsa"
    THEN /\ last.outcome = "ok"
         /\ last.ret.value.value <=>
              /\ Input.signature = TYPE_SIGNATURE("mldsa", Input.message, SignerPublic,
                                                  heap[pairs[1].secretKey])
              /\ SignerPublic = PublicOf("mldsa", Input.signature.core.key)
              /\ Input.message = Input.signed
    ELSE LET r == signatureVerify(Input.message, Input.signature,
                                  AsBytes(TYPE_ADDRESS(pairs[1].type, SignerPublic)))
         IN IF r.threw # "" THEN last.outcome = r.threw
            ELSE last.outcome = "ok" /\ last.ret.value.value = r.isValid

\* an mldsa pair was handed its own signature with two bytes before it, which
\* the lattice primitive throws on, and returned false
C24_Witness ==
  /\ last.op = "verify" /\ last.outcome = "ok" /\ ~last.ret.value.value
  /\ pairs[1].type = "mldsa" /\ Input.who = 1
  /\ Input.signature.head = <<2, 7>> /\ Input.message = Input.signed

\* the forms a public key of a type is handed over in: an address of 20 or 32
\* bytes, the key of the type, a secp256k1 key without its first byte,
\* uncompressed
KeyForms(type) ==
  {Bytes(len, "pk", KeyAlg(type), RootKey) : len \in {20, 32, PkLen(type), 64, 65}}
Hashed(len, hash, p) == [len |-> len, hash |-> hash, of |-> p]
\* raw.slice(-20)
Last20(raw) == [raw EXCEPT !.len = IF @ < 20 THEN @ ELSE 20]
\* a pair of the type made with public key p and no secret
PairOf(type) ==
  [s \in Slots |-> IF s = 1 THEN createPair(type, 1, Undef, NoMeta, NoContainer, NoEncTypes)
                   ELSE NoPair]
HeapOf(p) == [b \in BufIds |-> IF b = 1 THEN p ELSE FreeBuf]

Paths == {keyExtractPath(suri).path : suri \in {x \in Suris : keyExtractPath(x).ok}}

\* C26: the table of derivation steps has no step for ethereum: keyFromPath with
\* type ethereum, or with a type that has no step, fails with an error and gives
\* no keypair, whatever the path.
C26_EthereumUnsupported ==
  \A s \in Signers : \A path \in Paths :
    /\ pairs[s].type = "ethereum" =>
         ~keyFromPath(Refs(pairs), heap, pairs[s].publicKey, pairs[s].secretKey,
                      path, "ethereum").ok
    /\ ~keyFromPath(Refs(pairs), heap, pairs[s].publicKey, pairs[s].secretKey,
                    path, "none").ok

\* the signature is one the classification takes for prefixed
PrefixedShape(signature) ==
  \/ u8aFirst(signature) \in {0, 1, 2} /\ u8aLength(signature) \in {65, 66}
  \/ u8aFirst(signature) = 3 /\ u8aLength(signature) = MLDSA_SIGNATURE_LENGTH + 1

\* C27: signatureVerify takes a signature for prefixed, and hands it to
\* verifyMultisig, exactly when its first byte is 0, 1 or 2 and its length 65 or
\* 66, or its first byte is 3 and its length L + 1; every other signature of a
\* recognised length goes to verifyDetect; the second pass goes where the first
\* went, with the same signature.
C27_Classification ==
  (Engine /\ u8aLength(Input.signature) \in RecognisedLengths /\ Input.address.valid) =>
    /\ Len(Outcome.calls) = Outcome.passes /\ Outcome.passes \in {1, 2}
    /\ \A i \in 1 .. Len(Outcome.calls) :
         /\ Outcome.calls[i].fn = IF PrefixedShape(Input.signature)
                                  THEN "verifyMultisig" ELSE "verifyDetect"
         /\ Outcome.calls[i].signature = Input.signature
    /\ getVerifyFn(Input.signature) = "verifyMultisig" <=> PrefixedShape(Input.signature)

\* a lattice signature under byte 3 went to verifyMultisig in both passes
C27_Witness ==
  /\ Engine /\ Outcome.passes = 2
  /\ u8aFirst(Input.signature) = 3
  /\ u8aLength(Input.signature) = MLDSA_SIGNATURE_LENGTH + 1
  /\ Outcome.calls[1].fn = "verifyMultisig" /\ Outcome.calls[2].fn = "verifyMultisig"

Classic == {"ed25519", "mldsa", "sr25519"}
Five == <<"ed25519", "mldsa", "sr25519", "ecdsa", "ethereum">>
BarePath == Engine /\ Outcome.calls # <<>> /\ Outcome.calls[1].fn = "verifyDetect"
PrefixedPath == Engine /\ Outcome.calls # <<>> /\ Outcome.calls[1].fn = "verifyMultisig"
\* each of the 64-byte families was handed the signature without its first
\* byte, each secp256k1 variant the whole of it
StrippedForClassic ==
  \A i \in 1 .. Len(Outcome.tried) :
    Outcome.handed[i] = IF Outcome.tried[i] \in Classic
                        THEN u8aSubarray1(Input.signature) ELSE Input.signature

\* C28 as stated: on the bare path ed25519, mldsa and sr25519 are tried in this
\* order on the signature without its first byte, and ecdsa and then ethereum on
\* the whole signature only if none of the three accepted.
C28_BareStripsFirstByte ==
  BarePath =>
    /\ TriedOver(Outcome.tried, Outcome.passes, Five, Outcome.isValid)
    /\ StrippedForClassic

\* C28: on the bare path ed25519, mldsa, sr25519, ecdsa and ethereum are tried in
\* this order, each on the whole signature, nothing stripped, a later one only if
\* none before it accepted. It is on the prefixed path, for a signature of 65
\* bytes, that ed25519, mldsa and sr25519 are tried on the signature without its
\* first byte and, only if none accepts, ecdsa and then ethereum on the whole
\* signature.
C28_BareTriesWhole ==
  /\ BarePath =>
       /\ TriedOver(Outcome.tried, Outcome.passes, Five, Outcome.isValid)
       /\ Len(Outcome.handed) = Len(Outcome.tried)
       /\ \A i \in 1 .. Len(Outcome.tried) : Outcome.handed[i] = Input.signature
  /\ (PrefixedPath /\ u8aLength(Input.signature) = 65) =>
       /\ TriedOver(Outcome.tried, Outcome.passes, Five, Outcome.isValid)
       /\ Len(Outcome.handed) = Len(Outcome.tried)
       /\ StrippedForClassic

\* a bare ed25519 signature of 64 bytes was found valid on the bare path, handed
\* whole to the verifier
C28_Witness ==
  /\ BarePath /\ Outcome.isValid /\ Outcome.crypto = "ed25519"
  /\ u8aLength(Input.signature) = 64 /\ Input.signature.cut = 0
  /\ Input.signature.core.alg = "ed25519"
  /\ Outcome.handed = <<Input.signature>>

\* seq is sub taken in the order of Five
InOrderOfFive(sub) ==
  \A i, j \in 1 .. Len(sub) :
    i < j => \E a, b \in 1 .. Len(Five) : a < b /\ Five[a] = sub[i] /\ Five[b] = sub[j]
\* the pass the i-th trial was made in
PassOf(i) == IF Outcome.passes = 2 /\ i > Len(Trials) THEN 2 ELSE 1
\* the i-th verifier tried accepts what it was handed
Accepted(i) ==
  Verifies(Outcome.tried[i], Outcome.calls[PassOf(i)].message, Outcome.handed[i],
           Outcome.publicKey)

\* C29: first match wins, in a fixed order. In a pass the verifiers are tried in
\* the order ed25519, mldsa, sr25519, ecdsa, ethereum and the pass stops at the
\* first that accepts: the crypto reported is that one, no verifier tried before
\* it accepted, and none after it is invoked, also when a later one would have
\* accepted.
C29_FirstMatchWins ==
  (Engine /\ Outcome.threw = "" /\ Outcome.calls # <<>>) =>
    /\ InOrderOfFive(Trials)
    /\ TriedOver(Outcome.tried, Outcome.passes, Trials, Outcome.isValid)
    /\ Len(Outcome.handed) = Len(Outcome.tried)
    /\ Outcome.isValid =>
         /\ Outcome.crypto = Outcome.tried[Len(Outcome.tried)]
         /\ Accepted(Len(Outcome.tried))
         /\ \A i \in 1 .. Len(Outcome.tried) - 1 : ~Accepted(i)
    /\ ~Outcome.isValid =>
         /\ Outcome.crypto = "none"
         /\ \A i \in 1 .. Len(Outcome.tried) : ~Accepted(i)

\* a signature that ed25519 and sr25519 both accept was reported as ed25519, and
\* sr25519 was not invoked
C29_Witness ==
  /\ BarePath /\ Outcome.isValid /\ Outcome.crypto = "ed25519"
  /\ Outcome.tried = <<"ed25519">>
  /\ Verifies("sr25519", Outcome.calls[1].message, Input.signature, Outcome.publicKey)

\* well-formed containers without passphrase whose key material has the sizes the
\* branches of decodePkcs8 tell apart, and sizes none of them names
SizedContainers(type) ==
  {Container(Bytes(pkLen, "pk", KeyAlg(type), OtherKey),
             Bytes(skLen, IF skLen = SeedLen THEN "seed" ELSE "sk",
                   IF skLen = SeedLen THEN "none" ELSE KeyAlg(type), OtherKey),
             "", Latest, TRUE) :
     pkLen \in {32, 33, 2592}, skLen \in {7, 32, 64, 4896}}

\* C30: decodePkcs8 goes by the sizes of what the codec decoded. For mldsa a
\* secret of 32 bytes is a seed and is expanded by the seed-to-keypair function of
\* the type, a secret of 4896 bytes with a public key of 2592 bytes is used as it
\* is, and any other size is the error of a malformed container. For every other
\* type a secret of 64 bytes is used as it is with the decoded public key, and
\* any other size is taken for a seed and expanded. On success the pair is
\* unlocked; on an error it is what it was.
C30_DecodeBySize ==
  /\ \A s \in Slots : Live(s) =>
       \A c \in SizedContainers(pairs[s].type) :
         LET type == pairs[s].type
             r == decodePkcs8(pairs, heap, s, "", c)
             got == KeyMaterial(r.pairs, r.heap, s)
             expanded == TYPE_FROM_SEED(type, c.secretKey)
             asIs == r.outcome = "ok" /\ got.publicKey = c.publicKey
                     /\ got.secretKey = c.secretKey /\ ~got.isLocked
             asSeed == IF expanded.ok
                       THEN /\ r.outcome = "ok" /\ ~got.isLocked
                            /\ got.publicKey = PublicOf(type, OtherKey)
                            /\ got.secretKey = SecretOf(type, OtherKey)
                       ELSE r.outcome = ErrSeed /\ r.pairs = pairs /\ r.heap = heap
         IN IF type = "mldsa"
            THEN IF c.secretKey.len = 32 THEN asSeed /\ expanded.ok
                 ELSE IF c.secretKey.len = 4896 /\ c.publicKey.len = 2592 THEN asIs
                 ELSE r.outcome = ErrSizes /\ r.pairs = pairs /\ r.heap = heap
            ELSE IF c.secretKey.len = 64 THEN asIs ELSE asSeed
  /\ (last.op \in Decoders /\ last.outcome = "ok") => ~Locked(last.slot)
  /\ (last.op \in Decoders /\ last.outcome = ErrSizes) => pairs[last.slot].type = "mldsa"

\* decodePkcs8 of an mldsa pair was handed a container whose secret has no known
\* size and raised the error of the sizes
C30_Witness ==
  /\ last.op = "decodePkcs8" /\ last.outcome = ErrSizes
  /\ pairs[last.slot].type = "mldsa"

\* step(...step(step(pair, j1), j2)..., jn) on the content of a keypair, the step
\* being keyHdkd; none when a step fails
RECURSIVE Folded(_, _, _)
Folded(keyHdkd, keypair, path) ==
  IF path = <<>> \/ ~keypair.ok THEN keypair
  ELSE Folded(keyHdkd, keyHdkdStep(keyHdkd, keypair.secretKey, Head(path)), Tail(path))

\* C31: keyFromPath is a fold from the left. For a path j1..jn what it gives is
\* step(...step(step(pair, j1), j2)..., jn), the step being the one of the type,
\* each junction taken once and in the order of the path; the keypair it was
\* handed is not modified.
C31_LeftFold ==
  /\ \A s \in Signers : \A path \in Paths :
       LET type == pairs[s].type
           r == keyFromPath(Refs(pairs), heap, pairs[s].publicKey, pairs[s].secretKey,
                            path, type)
           f == Folded(generators(type),
                       [ok |-> TRUE, publicKey |-> PublicKey(s),
                        secretKey |-> heap[pairs[s].secretKey]], path)
       IN /\ r.ok = f.ok
          /\ r.ok =>
               /\ r.heap[r.publicKey] = f.publicKey
               /\ r.heap[r.secretKey] = f.secretKey
               /\ r.steps = Len(path)
               /\ f.secretKey.key.path = heap[pairs[s].secretKey].key.path \o path
               /\ path = <<>> =>
                    r.publicKey = pairs[s].publicKey /\ r.secretKey = pairs[s].secretKey
          /\ r.heap[pairs[s].publicKey] = heap[pairs[s].publicKey]
          /\ r.heap[pairs[s].secretKey] = heap[pairs[s].secretKey]
  /\ (last.op = "derive" /\ last.outcome = "ok") =>
       /\ last.steps = Len(last.ret.view.publicKey.key.path)
                       - Len(PublicKey(last.slot).key.path)
       /\ SubSeq(last.ret.view.publicKey.key.path, 1, Len(PublicKey(last.slot).key.path))
            = PublicKey(last.slot).key.path

\* derive went through a hard and then a soft junction, in this order
C31_Witness ==
  /\ last.op = "derive" /\ last.outcome = "ok" /\ last.steps = 2
  /\ last.ret.view.publicKey.key.path
       = PublicKey(last.slot).key.path
         \o <<[code |-> 1, hard |-> TRUE], [code |-> 1, hard |-> FALSE]>>

\* the container the encoding call recorded in last has returned
Produced == IF last.ret.kind = "json" THEN last.ret.json.encoded ELSE last.ret.container

\* what lock() and then unlock(q) give from the state the pair is in
Reopened(s, q) ==
  LET l == lock(pairs, heap, s) IN unlock(l.pairs, l.heap, s, q)

\* the container decodes with its passphrase to the keys the pair has, the pair
\* keeps it, and after lock() only its passphrase unlocks
RoundTripOf(s) ==
  LET passphrase == Produced.pass
      d == decodePkcs8(pairs, heap, s, passphrase, Produced)
  IN /\ pairs[s].encoded = Produced
     /\ decodePair(passphrase, Produced, NoEncTypes).ok
     /\ decodePair(passphrase, Produced, NoEncTypes).publicKey = PublicKey(s)
     /\ d.outcome = "ok"
     /\ ~isLocked(d.heap, d.pairs[s].secretKey)
     /\ d.heap[d.pairs[s].publicKey] = PublicKey(s)
     /\ ~Locked(s) =>
          \A m \in SignMessages, w \in BOOLEAN :
            sign(d.pairs, d.heap, s, m, w).ret = sign(pairs, heap, s, m, w).ret
     /\ \A q \in Pass :
          /\ Reopened(s, q).outcome = "ok" <=> q = passphrase
          /\ q = passphrase =>
               KeyMaterial(Reopened(s, q).pairs, Reopened(s, q).heap, s)
                 = KeyMaterial(d.pairs, d.heap, s)

\* C32: after encodePkcs8(p) or toJson(p) has succeeded, the container it gave
\* decodes with p to the public key of the pair and to an unlocked pair that
\* signs as the pair does, and the pair keeps that container: after lock(),
\* unlock(q) succeeds exactly when q is the passphrase of this last encoding.
C32_RoundTripAlways ==
  (last.op \in Recoders /\ last.outcome = "ok") => RoundTripOf(last.slot)

\* the pair in slot s holding the public key bytes pk instead of its own
WithPublic(s, pk) == [heap EXCEPT ![pairs[s].publicKey] = pk]

\* C33: a successful decodePkcs8 replaces the public key and the secret key of
\* the pair by the decoded ones, or by the ones expanded from the decoded seed;
\* the address afterwards is that of the new public key. The public key the
\* pair had plays no part in it, and the cached container is left as it was.
C33_DecodeReplacesBoth ==
  /\ \A s \in Slots : Live(s) =>
       \A passphrase \in Pass, userEncoded \in UserContainers(pairs[s].type) :
         LET type == pairs[s].type
             r == decodePkcs8(pairs, heap, s, passphrase, userEncoded)
             decoded == decodePair(passphrase,
                                   IF userEncoded.present THEN userEncoded
                                                          ELSE pairs[s].encoded,
                                   pairs[s].encTypes)
             expanded == TYPE_FROM_SEED(type, decoded.secretKey)
             now == KeyMaterial(r.pairs, r.heap, s)
         IN r.outcome = "ok" =>
              /\ decoded.ok
              /\ \/ now.publicKey = decoded.publicKey /\ now.secretKey = decoded.secretKey
                 \/ /\ expanded.ok
                    /\ now.publicKey = expanded.publicKey
                    /\ now.secretKey = expanded.secretKey
              /\ ~now.isLocked
              /\ encodeAddress(r.pairs, r.heap, s).raw = TYPE_ADDRESS(type, now.publicKey)
              /\ r.pairs[s].encoded = pairs[s].encoded
              /\ r.pairs[s].encTypes = pairs[s].encTypes
              /\ \A other \in {PublicOf(type, RootKey), PublicOf(type, OtherKey)} :
                   LET o == decodePkcs8(pairs, WithPublic(s, other), s, passphrase,
                                        userEncoded)
                   IN o.outcome = "ok" /\ KeyMaterial(o.pairs, o.heap, s) = now
  /\ (last.op = "decodePkcs8" /\ last.outcome = "ok") => ~Locked(last.slot)

\* decodePkcs8 with a container of another key has succeeded: the pair has the
\* other public key and its address, and the cached container is still that of
\* the key the pair was made with
C33_Witness ==
  /\ last.op = "decodePkcs8" /\ last.outcome = "ok"
  /\ PublicKey(last.slot).key = OtherKey
  /\ encodeAddress(pairs, heap, last.slot).raw.of.key = OtherKey
  /\ pairs[last.slot].encoded.present
  /\ pairs[last.slot].encoded.publicKey.key = RootKey

\* the branch a signature is verified in
Branch(signature) ==
  CASE getVerifyFn(signature) = "verifyDetect" -> "bare"
    [] u8aLength(signature) = 65 -> "prefixed 65"
    [] u8aLength(signature) = 66 -> "prefixed 66"
    [] OTHER -> "prefixed lattice"

\* valid exactly when an algorithm is named
ValidIffNamed(result) == result.isValid <=> result.crypto # "none"

\* C34: every result signatureVerify returns has isValid true exactly when its
\* crypto is not 'none', in the bare branch and in the three prefixed ones, after
\* one pass and after two; a second pass starts from crypto 'none' and isValid
\* false.
C34_ValidIffCryptoNamed ==
  (Engine /\ Outcome.threw = "") =>
    /\ Branch(Input.signature) \in {"bare", "prefixed 65", "prefixed 66", "prefixed lattice"}
    /\ ValidIffNamed(Outcome)
    /\ Outcome.crypto \in {"none"} \cup Range(Outcome.tried)
    /\ ValidIffNamed(PassOn(Input.message))
    /\ Outcome.passes = 2 =>
         /\ PassOn(Input.message).crypto = "none"
         /\ ~PassOn(Input.message).isValid
         /\ ValidIffNamed(PassOn(Outcome.calls[2].message))
    /\ Outcome.passes = 1 /\ Len(Outcome.calls) = 1 =>
         Outcome.crypto # "none" \/ u8aIsWrapped(Input.message, TRUE)

\* a signature with its type, of 65 bytes, was found valid in the second pass
C34_Witness ==
  /\ Engine /\ Outcome.threw = ""
  /\ Branch(Input.signature) = "prefixed 65"
  /\ Outcome.passes = 2 /\ Outcome.isValid /\ Outcome.crypto # "none"

\* the VRF results handed to vrfVerify of an sr25519 pair: what the holder of its
\* key made, and what the holder of another key made
NativeResults(s) ==
  {sr25519VrfSign(m, SecretOf("sr25519", key), c, e) :
     m \in SignMessages, c \in Contexts, e \in Contexts,
     key \in {PublicKey(s).key, OtherKey}}

\* the signer public keys handed with them: the pair's own, another, and none
NativeSigners(s) == {PublicKey(s), PublicOf("sr25519", OtherKey), EmptyBytes}

\* C35: vrfVerify of an sr25519 pair is the native check of the result against
\* the public key the pair has now; the signer public key handed in has no
\* influence, two calls that differ in it give the same; a locked pair does it
\* as an unlocked one does.
C35_NativeCheckIgnoresSigner ==
  /\ \A s \in Slots : (Live(s) /\ pairs[s].type = "sr25519") =>
       \A m \in SignMessages, c \in Contexts, e \in Contexts, r \in NativeResults(s) :
         \A signerPublic \in NativeSigners(s), other \in NativeSigners(s) :
           LET v == vrfVerify(pairs, heap, s, m, r, signerPublic, c, e)
               w == vrfVerify(pairs, heap, s, m, r, other, c, e)
               l == lock(pairs, heap, s)
               u == vrfVerify(l.pairs, l.heap, s, m, r, signerPublic, c, e)
           IN /\ v.outcome = "ok"
              /\ v.ret.value = sr25519VrfVerify(m, r, PublicKey(s), c, e)
              /\ v.ret.value <=>
                   r = sr25519VrfSign(m, SecretOf("sr25519", PublicKey(s).key), c, e)
              /\ w.outcome = v.outcome /\ w.ret = v.ret
              /\ u.outcome = "ok" /\ u.ret = v.ret
              /\ v.pairs = pairs /\ v.heap = heap
  /\ (last.op = "vrfVerify" /\ pairs[last.slot].type = "sr25519") =>
       /\ last.outcome = "ok"
       /\ last.ret.value =>
            \E m \in SignMessages, c \in Contexts, r \in KnownVrfResults :
              sr25519VrfVerify(m, r, PublicKey(last.slot), c, NoText)

\* a locked sr25519 pair was handed a result its key had made, and accepted it
C35_Witness ==
  /\ last.op = "vrfVerify" /\ last.outcome = "ok" /\ last.ret.value
  /\ pairs[last.slot].type = "sr25519"
  /\ last.wasLocked /\ Locked(last.slot)
  /\ \E m \in SignMessages, c \in Contexts, r \in KnownVrfResults :
       /\ Accepts(last.slot, m, r, PublicOf("sr25519", OtherKey), c, NoText)
       /\ Accepts(last.slot, m, r, PublicKey(last.slot), c, NoText)

\* C36: isWrapped and publicKey of a signatureVerify result are those of the
\* message and the address as they were handed in: isWrapped says whether that
\* message is in the bytes envelope or has the ethereum prefix, publicKey is the
\* decoded address. The second pass does not change them: a signature found
\* valid only over the toggled message is reported with the isWrapped of the
\* message handed in. Every pass is handed the signature and the public key of
\* the first, and the message and signature handed in are what they were.
C36_ComputedOnceFromInputs ==
  /\ [](( Engine /\ Outcome.threw = "") =>
         /\ Outcome.isWrapped = u8aIsWrapped(Input.message, TRUE)
         /\ Outcome.isWrapped <=> Input.message.form \in {"bytes", "bytes2", "eth"}
         /\ Outcome.publicKey = decodeAddress(Input.address).publicKey
         /\ Outcome.calls[1].message = Input.message
         /\ \A i \in DOMAIN Outcome.calls :
              /\ Outcome.calls[i].signature = Input.signature
              /\ Outcome.calls[i].publicKey = Outcome.publicKey
         /\ Outcome.passes = 2 =>
              /\ Outcome.calls[2].message # Input.message
              /\ Input.message.form # "bytes2" =>
                   Outcome.isWrapped # u8aIsWrapped(Outcome.calls[2].message, TRUE))
  /\ [][last'.op = "signatureVerify" =>
          /\ last'.ret.input = last.ret
          /\ pairs' = pairs /\ heap' = heap]_vars

\* a signature over a message in the envelope was found valid in the second pass
\* for the message handed in without it, and isWrapped is false
C36_Witness ==
  /\ Engine /\ Outcome.threw = ""
  /\ Outcome.passes = 2 /\ Outcome.isValid
  /\ Input.message.form = "plain" /\ ~Outcome.isWrapped
  /\ u8aIsWrapped(Outcome.calls[2].message, TRUE)
  /\ Outcome.publicKey = Input.address.raw

====
